---- MODULE Spec2Model ----
(***************************************************************************)
(* Model of the Kora rent-reclaim core: RentReclaimer (discover, evaluate, *)
(* reclaim, full cycle, stats) and the helpers it calls (utils/solana.ts,  *)
(* utils/logger.ts).                                                       *)
(*                                                                         *)
(* Amounts are lamports, times are milliseconds (Date.now()) and seconds   *)
(* (blockTime), as in the source.  The ledger, the signature history and   *)
(* the RPC failures are the environment.                                   *)
(***************************************************************************)
EXTENDS Integers, Sequences, FiniteSets, TLC

\* ------------------------------------------------------------------------
\* Bounds of the model
\* ------------------------------------------------------------------------
MaxLamports == 2
MaxLedgerChanges == 1

\* ------------------------------------------------------------------------
\* Program constants
\* ------------------------------------------------------------------------
MsPerSecond == 1000
MsPerDay == 1000 * 60 * 60 * 24
PauseMs == 1000
DefaultAccountAgeThreshold == 7

\* Clock at the start of an invocation (Date.now()), ten days after the epoch
NowInit == 10 * MsPerDay

Procs == {"p1", "p2"}
Main == "p1"

Addrs == {"a1", "a2"}
AddrOrder == <<"a1", "a2">>

SystemProgramId == "11111111111111111111111111111111"
TokenProgramId == "TokenkegQfeZyiNwAJbNbGKPFXCWuBvf9Ss623VQ5DA"
Owners == {SystemProgramId, TokenProgramId}
FeePayer == "feePayer"
Treasury == "treasury"

\* Configured thresholds (Config.minRentThreshold, Config.accountAgeThreshold)
MinRentValues == {0, MaxLamports}
AgeDaysValues == {DefaultAccountAgeThreshold}

\* ------------------------------------------------------------------------
\* Ledger values
\* ------------------------------------------------------------------------
\* getAccountInfo's answer for an address without an account (null)
NullInfo ==
  [exists |-> FALSE, lamports |-> 0, owner |-> "", executable |-> FALSE,
   dataLength |-> 0]

AccountInfos ==
  [exists : {TRUE}, lamports : 0..MaxLamports, owner : Owners,
   executable : {FALSE}, dataLength : {0, 1}]

\* blockTime of a signature; NoTime is a null blockTime
NoTime == -1
BoundaryTime == (NowInit - DefaultAccountAgeThreshold * MsPerDay) \div MsPerSecond
BlockTimes == {NoTime, 0, BoundaryTime, BoundaryTime + 1}

\* Most recent signature of an address: none, or one with a blockTime
NoSig == [present |-> FALSE, blockTime |-> NoTime]
SigStates == {NoSig} \cup [present : {TRUE}, blockTime : BlockTimes]

\* An RPC call either answers or raises
Raise == [kind |-> "raise"]
Ok(v) == [kind |-> "ok", value |-> v]

\* ------------------------------------------------------------------------
\* utils/solana.ts
\* ------------------------------------------------------------------------
\* fetchAccountInfo: the RPC answer, or null when the call raises
fetchAccountInfo(resp) ==
  IF resp.kind = "raise" THEN NullInfo ELSE resp.value

isAccountClosedNoZero(info) == ~info.exists

isAccountClosed(info) == ~info.exists \/ info.lamports = 0

hasEmptyData(info) == info.exists /\ info.dataLength = 0

\* !blockTime : null, undefined and 0 are falsy
Falsy(blockTime) == blockTime = NoTime \/ blockTime = 0

hasRecentActivityExclusive(resp, nowMs, daysThreshold) ==
  IF resp.kind = "raise" THEN TRUE
  ELSE IF ~resp.value.present THEN FALSE
  ELSE IF Falsy(resp.value.blockTime) THEN TRUE
  ELSE (nowMs - resp.value.blockTime * MsPerSecond) <= daysThreshold * MsPerDay

hasRecentActivityFailOpen(resp, nowMs, daysThreshold) ==
  IF resp.kind = "raise" THEN FALSE
  ELSE IF ~resp.value.present THEN FALSE
  ELSE IF Falsy(resp.value.blockTime) THEN FALSE
  ELSE (nowMs - resp.value.blockTime * MsPerSecond) < daysThreshold * MsPerDay

\* hasRecentActivity: resp is the answer of getSignaturesForAddress(limit 1).
\* daysSince = (now - blockTime*1000) / MsPerDay < daysThreshold, with the
\* division multiplied out (daysThreshold is a whole number of days).
hasRecentActivity(resp, nowMs, daysThreshold) ==
  IF resp.kind = "raise" THEN TRUE
  ELSE IF ~resp.value.present THEN FALSE
  ELSE IF Falsy(resp.value.blockTime) THEN TRUE
  ELSE (nowMs - resp.value.blockTime * MsPerSecond) < daysThreshold * MsPerDay

\* ------------------------------------------------------------------------
\* types.ts
\* ------------------------------------------------------------------------
ACCOUNT_CLOSED == "Account is closed (zero balance)"
ACCOUNT_EMPTY == "Account data is empty"
ACCOUNT_INACTIVE == "Account inactive for extended period"

\* { ...acct, <overrides> } : object spread
Spread(acct, over) ==
  [k \in (DOMAIN acct) \cup (DOMAIN over) |->
     IF k \in DOMAIN over THEN over[k] ELSE acct[k]]

\* ------------------------------------------------------------------------
\* State
\* ------------------------------------------------------------------------
VARIABLES
  config,            \* Config: minRentThreshold, accountAgeThreshold
  ledger,            \* address -> account on the ledger (NullInfo: none)
  sigs,              \* address -> most recent signature of the address
  now,               \* Date.now()
  ledgerChanges,     \* number of changes made to the ledger by other parties
  transfers,         \* transfers submitted with sendAndConfirmTransaction
  lifetimeReclaimed, \* RentReclaimer.lifetimeReclaimed
  lastScanTime,      \* RentReclaimer.lastScanTime
  auditLog,          \* payloads written by logReclaimOperation
  pc,                \* per invocation: the await it is suspended at
  accounts,          \* per invocation: input of identifyReclaimableAccounts
  idx,               \* per invocation: position of the running for-loop
  live,              \* per invocation: account info held across an await
  reclaimable,       \* per invocation: output of evaluate / input of reclaimAll
  results,           \* per invocation: ReclaimResult[] of reclaimAll
  evalLog,           \* history: what the ledger held when an account was evaluated
  attemptLog,        \* history: what each reclaim attempt read and moved
  history,           \* the fee payer's signatures, most recent first
  entry,             \* per invocation: the entry point it was started at
  scanned,           \* per invocation: result of getSponsoredAccounts
  sigPos,            \* per invocation: position of the loop over signatures
  keyPos,            \* per invocation: position of the loop over accountKeys
  seen,              \* per invocation: the Set seen of getSponsoredAccounts
  stats,             \* per invocation: RentStats returned by getStats
  discLog,           \* history: what each call of discovery was answered
  cycleLog           \* history: scan summaries logged and full cycles completed

vars ==
  <<config, ledger, sigs, now, ledgerChanges, transfers, lifetimeReclaimed,
    lastScanTime, auditLog, pc, accounts, idx, live, reclaimable, results,
    evalLog, attemptLog, history, entry, scanned, sigPos, keyPos, seen, stats,
    discLog, cycleLog>>

envVars == <<config, ledger, sigs, now, ledgerChanges>>
reclaimerVars == <<transfers, lifetimeReclaimed, lastScanTime, auditLog>>
reclaimVars == <<results, attemptLog>>
discoverVars ==
  <<history, entry, scanned, sigPos, keyPos, seen, stats, discLog, cycleLog>>

\* ------------------------------------------------------------------------
\* RentReclaimer.getSponsoredAccounts (discover)
\* ------------------------------------------------------------------------
\* getParsedTransaction's answer for a signature it has no transaction for
NullTx == [present |-> FALSE, accountKeys |-> <<>>]
ParsedTx(sigInfo) == [present |-> TRUE, accountKeys |-> sigInfo.accountKeys]

\* !tx?.transaction?.message?.accountKeys
Unusable(resp) == resp.kind = "raise" \/ ~resp.value.present

NextUnseenNoDedup(keys, from, s) ==
  IF from > Len(keys) THEN 0 ELSE from

RECURSIVE NextUnseen(_, _, _)
\* for (const key of accountKeys) { if (seen.has(addr)) continue; ... } :
\* the first position from `from` on whose address is not in seen, 0 if none
NextUnseen(keys, from, s) ==
  IF from > Len(keys) THEN 0
  ELSE IF keys[from] \notin s THEN from
  ELSE NextUnseen(keys, from + 1, s)

\* the entry pushed for addr: zeros when the account is gone (info is null),
\* else the fields of info; lastActivity is the blockTime of the signature
SponsoredAccount(addr, info, sigInfo) ==
  IF ~info.exists
  THEN [address |-> addr, lamports |-> 0, owner |-> "", executable |-> FALSE,
        dataLength |-> 0, lastActivity |-> sigInfo.blockTime]
  ELSE [address |-> addr, lamports |-> info.lamports, owner |-> info.owner,
        executable |-> info.executable, dataLength |-> info.dataLength,
        lastActivity |-> sigInfo.blockTime]

PushFetchedDropMissing(result, addr, info, sigInfo) ==
  IF ~info.exists THEN result
  ELSE Append(result, SponsoredAccount(addr, info, sigInfo))

\* if (!info) { result.push({...zeros}); continue; } result.push({...info})
PushFetched(result, addr, info, sigInfo) ==
  Append(result, SponsoredAccount(addr, info, sigInfo))

DiscCall(call, answer, sig, address, info) ==
  [call |-> call, answer |-> answer, sig |-> sig, address |-> address,
   info |-> info]

DiscoverAdvanceNoAdd(p, keys, from) ==
  LET k == NextUnseen(keys, from, seen[p]) IN
    IF k = 0
    THEN /\ sigPos' = [sigPos EXCEPT ![p] = @ + 1]
         /\ keyPos' = [keyPos EXCEPT ![p] = 0]
         /\ pc' = [pc EXCEPT ![p] = "discParse"]
         /\ UNCHANGED seen
    ELSE /\ keyPos' = [keyPos EXCEPT ![p] = k]
         /\ pc' = [pc EXCEPT ![p] = "discFetch"]
         /\ UNCHANGED <<sigPos, seen>>

\* the loop over accountKeys runs on to the next address not yet seen, adds
\* it to seen and awaits its account; at the end of the keys the loop over
\* signatures goes on
DiscoverAdvance(p, keys, from) ==
  LET k == NextUnseen(keys, from, seen[p]) IN
    IF k = 0
    THEN /\ sigPos' = [sigPos EXCEPT ![p] = @ + 1]
         /\ keyPos' = [keyPos EXCEPT ![p] = 0]
         /\ pc' = [pc EXCEPT ![p] = "discParse"]
         /\ UNCHANGED seen
    ELSE /\ keyPos' = [keyPos EXCEPT ![p] = k]
         /\ seen' = [seen EXCEPT ![p] = @ \cup {keys[k]}]
         /\ pc' = [pc EXCEPT ![p] = "discFetch"]
         /\ UNCHANGED sigPos

\* await getSignaturesForAddress(feePayer, {limit}); a raise is caught by the
\* outer catch, which returns []
DiscoverQuery(p) ==
  /\ pc[p] = "discQuery"
  /\ \E resp \in {Raise, Ok(history)} :
       /\ discLog' =
            [discLog EXCEPT ![p] =
               Append(@, DiscCall("signatures", resp.kind, 0, "", NullInfo))]
       /\ pc' = [pc EXCEPT ![p] =
                   IF resp.kind = "raise" THEN "discDone" ELSE "discParse"]
  /\ sigPos' = [sigPos EXCEPT ![p] = 1]
  /\ scanned' = [scanned EXCEPT ![p] = <<>>]
  /\ seen' = [seen EXCEPT ![p] = {}]
  /\ UNCHANGED <<envVars, reclaimerVars, accounts, idx, live, reclaimable,
                 reclaimVars, evalLog, history, entry, keyPos, stats, cycleLog>>

DiscoverParseAbort(p) ==
  /\ pc[p] = "discParse"
  /\ sigPos[p] <= Len(history)
  /\ LET sigInfo == history[sigPos[p]] IN
     \E resp \in {Raise, Ok(NullTx), Ok(ParsedTx(sigInfo))} :
       /\ discLog' =
            [discLog EXCEPT ![p] =
               Append(@, DiscCall("transaction",
                                  IF resp.kind = "raise" THEN "raise"
                                  ELSE IF ~resp.value.present THEN "null"
                                  ELSE "ok",
                                  sigPos[p], "", NullInfo))]
       /\ IF resp.kind = "raise"
          THEN /\ pc' = [pc EXCEPT ![p] = "discDone"]
               /\ UNCHANGED <<sigPos, keyPos, seen>>
          ELSE IF Unusable(resp)
          THEN /\ sigPos' = [sigPos EXCEPT ![p] = @ + 1]
               /\ UNCHANGED <<pc, keyPos, seen>>
          ELSE DiscoverAdvance(p, resp.value.accountKeys, 1)
  /\ UNCHANGED <<envVars, reclaimerVars, accounts, idx, live, reclaimable,
                 reclaimVars, evalLog, history, entry, scanned, stats, cycleLog>>

DiscoverParseSkipTwo(p) ==
  /\ pc[p] = "discParse"
  /\ sigPos[p] <= Len(history)
  /\ LET sigInfo == history[sigPos[p]] IN
     \E resp \in {Raise, Ok(NullTx), Ok(ParsedTx(sigInfo))} :
       /\ discLog' =
            [discLog EXCEPT ![p] =
               Append(@, DiscCall("transaction",
                                  IF resp.kind = "raise" THEN "raise"
                                  ELSE IF ~resp.value.present THEN "null"
                                  ELSE "ok",
                                  sigPos[p], "", NullInfo))]
       /\ IF Unusable(resp)
          THEN /\ sigPos' = [sigPos EXCEPT ![p] = @ + 2]
               /\ UNCHANGED <<pc, keyPos, seen>>
          ELSE DiscoverAdvance(p, resp.value.accountKeys, 1)
  /\ UNCHANGED <<envVars, reclaimerVars, accounts, idx, live, reclaimable,
                 reclaimVars, evalLog, history, entry, scanned, stats, cycleLog>>

\* await getParsedTransaction(sigInfo.signature): a raise or an answer
\* without accountKeys skips the signature
DiscoverParse(p) ==
  /\ pc[p] = "discParse"
  /\ sigPos[p] <= Len(history)
  /\ LET sigInfo == history[sigPos[p]] IN
     \E resp \in {Raise, Ok(NullTx), Ok(ParsedTx(sigInfo))} :
       /\ discLog' =
            [discLog EXCEPT ![p] =
               Append(@, DiscCall("transaction",
                                  IF resp.kind = "raise" THEN "raise"
                                  ELSE IF ~resp.value.present THEN "null"
                                  ELSE "ok",
                                  sigPos[p], "", NullInfo))]
       /\ IF Unusable(resp)
          THEN /\ sigPos' = [sigPos EXCEPT ![p] = @ + 1]
               /\ UNCHANGED <<pc, keyPos, seen>>
          ELSE DiscoverAdvance(p, resp.value.accountKeys, 1)
  /\ UNCHANGED <<envVars, reclaimerVars, accounts, idx, live, reclaimable,
                 reclaimVars, evalLog, history, entry, scanned, stats, cycleLog>>

\* await fetchAccountInfo(connection, addr), then result.push
DiscoverFetch(p) ==
  /\ pc[p] = "discFetch"
  /\ LET sigInfo == history[sigPos[p]]
         addr == sigInfo.accountKeys[keyPos[p]]
     IN
       \E resp \in {Raise, Ok(ledger[addr])} :
         /\ scanned' =
              [scanned EXCEPT ![p] =
                 PushFetched(@, addr, fetchAccountInfo(resp), sigInfo)]
         /\ discLog' =
              [discLog EXCEPT ![p] =
                 Append(@, DiscCall("account", resp.kind, sigPos[p], addr,
                                    ledger[addr]))]
         /\ DiscoverAdvance(p, sigInfo.accountKeys, keyPos[p] + 1)
  /\ UNCHANGED <<envVars, reclaimerVars, accounts, idx, live, reclaimable,
                 reclaimVars, evalLog, history, entry, stats, cycleLog>>

\* the loop over signatures is over: getSponsoredAccounts returns result
DiscoverReturn(p) ==
  /\ pc[p] = "discParse"
  /\ sigPos[p] > Len(history)
  /\ pc' = [pc EXCEPT ![p] = "discDone"]
  /\ UNCHANGED <<envVars, reclaimerVars, accounts, idx, live, reclaimable,
                 reclaimVars, evalLog, discoverVars>>

\* ------------------------------------------------------------------------
\* RentReclaimer.identifyReclaimableAccounts (evaluate)
\* ------------------------------------------------------------------------
Push(item) == [act |-> "push", item |-> item]
Skip == [act |-> "skip", item |-> <<>>]
AskActivity == [act |-> "activity", item |-> <<>>]

RuleABStaleBalance(acct, info, minRent) ==
  IF isAccountClosed(info)
  THEN IF acct.lamports >= minRent
       THEN Push(Spread(acct, [reason |-> ACCOUNT_CLOSED,
                               estimatedRent |-> acct.lamports]))
       ELSE Skip
  ELSE IF hasEmptyData(info) /\ info.lamports >= minRent
  THEN Push(Spread(acct, [reason |-> ACCOUNT_EMPTY,
                          estimatedRent |-> acct.lamports]))
  ELSE IF info.lamports >= minRent THEN AskActivity
  ELSE Skip

RuleABNoThreshold(acct, info, minRent) ==
  IF isAccountClosed(info)
  THEN IF acct.lamports >= minRent
       THEN Push(Spread(acct, [reason |-> ACCOUNT_CLOSED,
                               estimatedRent |-> acct.lamports]))
       ELSE Skip
  ELSE IF hasEmptyData(info)
  THEN Push(Spread(acct, [lamports |-> info.lamports,
                          reason |-> ACCOUNT_EMPTY,
                          estimatedRent |-> info.lamports]))
  ELSE IF info.lamports >= minRent THEN AskActivity
  ELSE Skip

RuleABEmptyFirst(acct, info, minRent) ==
  IF hasEmptyData(info) /\ info.lamports >= minRent
  THEN Push(Spread(acct, [lamports |-> info.lamports,
                          reason |-> ACCOUNT_EMPTY,
                          estimatedRent |-> info.lamports]))
  ELSE IF isAccountClosed(info)
  THEN IF acct.lamports >= minRent
       THEN Push(Spread(acct, [reason |-> ACCOUNT_CLOSED,
                               estimatedRent |-> acct.lamports]))
       ELSE Skip
  ELSE IF info.lamports >= minRent THEN AskActivity
  ELSE Skip

\* Rules A and B of the loop body, on the fetched info: push an entry, skip
\* the account, or go on to rule C's activity lookup
RuleAB(acct, info, minRent) ==
  IF isAccountClosed(info)
  THEN IF acct.lamports >= minRent
       THEN Push(Spread(acct, [reason |-> ACCOUNT_CLOSED,
                               estimatedRent |-> acct.lamports]))
       ELSE Skip
  ELSE IF hasEmptyData(info) /\ info.lamports >= minRent
  THEN Push(Spread(acct, [lamports |-> info.lamports,
                          reason |-> ACCOUNT_EMPTY,
                          estimatedRent |-> info.lamports]))
  ELSE IF info.lamports >= minRent THEN AskActivity
  ELSE Skip

\* Rule C, after the activity lookup
RuleC(acct, info, active) ==
  IF ~active
  THEN Push(Spread(acct, [lamports |-> info.lamports,
                          reason |-> ACCOUNT_INACTIVE,
                          estimatedRent |-> info.lamports]))
  ELSE Skip

NoActivity == [asked |-> FALSE, kind |-> "none", sig |-> NoSig, at |-> 0]

\* await fetchAccountInfo(acct.address), then rules A and B
EvalFetch(p) ==
  /\ pc[p] = "evalFetch"
  /\ idx[p] <= Len(accounts[p])
  /\ LET acct == accounts[p][idx[p]] IN
     \E resp \in {Raise, Ok(ledger[acct.address])} :
       LET info == fetchAccountInfo(resp)
           d == RuleAB(acct, info, config.minRentThreshold)
       IN
         /\ reclaimable' =
              [reclaimable EXCEPT ![p] =
                 IF d.act = "push" THEN Append(@, d.item) ELSE @]
         /\ pc' = [pc EXCEPT ![p] =
                     IF d.act = "activity" THEN "evalActivity" ELSE "evalFetch"]
         /\ idx' = [idx EXCEPT ![p] = IF d.act = "activity" THEN @ ELSE @ + 1]
         /\ live' = [live EXCEPT ![p] = info]
         /\ evalLog' =
              [evalLog EXCEPT ![p] =
                 Append(@, [acct |-> acct,
                            info |-> ledger[acct.address],
                            sig |-> sigs[acct.address],
                            fetch |-> resp.kind,
                            activity |-> NoActivity])]
  /\ UNCHANGED <<discoverVars, envVars, reclaimerVars, accounts, reclaimVars>>

\* await hasRecentActivity(acct.address, ageDays), then rule C
EvalActivity(p) ==
  /\ pc[p] = "evalActivity"
  /\ LET acct == accounts[p][idx[p]] IN
     \E resp \in {Raise, Ok(sigs[acct.address])} :
       LET active == hasRecentActivity(resp, now, config.accountAgeThreshold)
           d == RuleC(acct, live[p], active)
       IN
         /\ reclaimable' =
              [reclaimable EXCEPT ![p] =
                 IF d.act = "push" THEN Append(@, d.item) ELSE @]
         /\ evalLog' =
              [evalLog EXCEPT ![p][Len(evalLog[p])].activity =
                 [asked |-> TRUE, kind |-> resp.kind,
                  sig |-> sigs[acct.address], at |-> now]]
  /\ pc' = [pc EXCEPT ![p] = "evalFetch"]
  /\ idx' = [idx EXCEPT ![p] = @ + 1]
  /\ UNCHANGED <<discoverVars, envVars, reclaimerVars, accounts, live, reclaimVars>>

EvalReturnStampsScan(p) ==
  /\ pc[p] = "evalFetch"
  /\ idx[p] > Len(accounts[p])
  /\ pc' = [pc EXCEPT ![p] = "evalDone"]
  /\ lastScanTime' = now
  /\ UNCHANGED <<discoverVars, envVars, transfers, lifetimeReclaimed, auditLog,
                 accounts, idx, live, reclaimable, reclaimVars, evalLog>>

EvalReturnRaisesThreshold(p) ==
  /\ pc[p] = "evalFetch"
  /\ idx[p] > Len(accounts[p])
  /\ pc' = [pc EXCEPT ![p] = "evalDone"]
  /\ config' = [config EXCEPT !.minRentThreshold = MaxLamports]
  /\ UNCHANGED <<discoverVars, ledger, sigs, now, ledgerChanges, reclaimerVars,
                 accounts, idx, live, reclaimable, reclaimVars, evalLog>>

\* the loop is over: identifyReclaimableAccounts returns reclaimable
EvalReturn(p) ==
  /\ pc[p] = "evalFetch"
  /\ idx[p] > Len(accounts[p])
  /\ pc' = [pc EXCEPT ![p] = "evalDone"]
  /\ UNCHANGED <<discoverVars, envVars, reclaimerVars, accounts, idx, live, reclaimable,
                 reclaimVars, evalLog>>

\* ------------------------------------------------------------------------
\* Specification of evaluate: one call of identifyReclaimableAccounts on a
\* list of discovered accounts, against any ledger
\* ------------------------------------------------------------------------
Configs ==
  [minRentThreshold : MinRentValues, accountAgeThreshold : AgeDaysValues]

\* SponsoredAccount of address a as discovery recorded it: the balance of
\* that time, and the owner and data length of the account
Snapshot(a, lamports, info) ==
  [address |-> a, lamports |-> lamports, owner |-> info.owner,
   executable |-> info.executable, dataLength |-> info.dataLength]

Listed(n) == {AddrOrder[k] : k \in 1..n}

\* No discovery has run and no entry point was called
DiscoveryUnused ==
  /\ history = <<>>
  /\ entry = [p \in Procs |-> "none"]
  /\ scanned = [p \in Procs |-> <<>>]
  /\ sigPos = [p \in Procs |-> 1]
  /\ keyPos = [p \in Procs |-> 0]
  /\ seen = [p \in Procs |-> {}]
  /\ stats = [p \in Procs |-> <<>>]
  /\ discLog = [p \in Procs |-> <<>>]
  /\ cycleLog = <<>>

Init ==
  /\ DiscoveryUnused
  /\ config \in Configs
  /\ now = NowInit
  /\ ledgerChanges = 0
  /\ transfers = <<>>
  /\ lifetimeReclaimed = 0
  /\ lastScanTime = 0
  /\ auditLog = <<>>
  /\ \E n \in 0..Len(AddrOrder) :
       /\ ledger \in [Addrs -> {NullInfo} \cup {i \in AccountInfos : i.owner = SystemProgramId}]
       /\ sigs \in [Addrs -> SigStates]
       /\ \A a \in Addrs \ Listed(n) : ledger[a] = NullInfo /\ sigs[a] = NoSig
       /\ \E l \in [1..n -> 0..MaxLamports] :
            accounts = [p \in Procs |->
                          IF p = Main
                          THEN [k \in 1..n |-> Snapshot(AddrOrder[k], l[k], ledger[AddrOrder[k]])]
                          ELSE <<>>]
  /\ pc = [p \in Procs |-> IF p = Main THEN "evalFetch" ELSE "idle"]
  /\ idx = [p \in Procs |-> 1]
  /\ live = [p \in Procs |-> NullInfo]
  /\ reclaimable = [p \in Procs |-> <<>>]
  /\ results = [p \in Procs |-> <<>>]
  /\ evalLog = [p \in Procs |-> <<>>]
  /\ attemptLog = [p \in Procs |-> <<>>]

Next ==
  \E p \in Procs :
    \/ EvalFetch(p)
    \/ EvalActivity(p)
    \/ EvalReturn(p)

Spec == Init /\ [][Next]_vars

\* ------------------------------------------------------------------------
\* closeAccountAndReclaimRent (utils/solana.ts)
\* ------------------------------------------------------------------------
NoSignature == 0
NoError == <<>>
ErrNotExist == <<"Account does not exist or is already closed.">>
ErrZeroBalance == <<"Account already has zero balance.">>
ErrProgramOwned(owner) ==
  <<"Account is owned by ", owner,
    " - needs a program-specific close instruction.">>
\* err.message of a failed getAccountInfo / sendAndConfirmTransaction
ReadFailure == <<"failed to get info about account">>
SendFailure == <<"failed to send transaction">>

Failure(error) ==
  [success |-> FALSE, signature |-> NoSignature, error |-> error]
Success(signature) ==
  [success |-> TRUE, signature |-> signature, error |-> NoError]

CloseCatchNoText(msg) == Failure(NoError)

\* catch (err) of closeAccountAndReclaimRent
CloseCatch(msg) == Failure(msg)

CloseGuardsNoOwnerCheck(resp) ==
  IF resp.kind = "raise" THEN [pass |-> FALSE, res |-> CloseCatch(ReadFailure)]
  ELSE IF ~resp.value.exists THEN [pass |-> FALSE, res |-> Failure(ErrNotExist)]
  ELSE IF resp.value.lamports = 0
  THEN [pass |-> FALSE, res |-> Failure(ErrZeroBalance)]
  ELSE [pass |-> TRUE, res |-> Failure(NoError)]

\* getAccountInfo and the guard clauses: pass, or the result returned early
CloseGuards(resp) ==
  IF resp.kind = "raise" THEN [pass |-> FALSE, res |-> CloseCatch(ReadFailure)]
  ELSE IF ~resp.value.exists THEN [pass |-> FALSE, res |-> Failure(ErrNotExist)]
  ELSE IF resp.value.lamports = 0
  THEN [pass |-> FALSE, res |-> Failure(ErrZeroBalance)]
  ELSE IF resp.value.owner # SystemProgramId
  THEN [pass |-> FALSE, res |-> Failure(ErrProgramOwned(resp.value.owner))]
  ELSE [pass |-> TRUE, res |-> Failure(NoError)]

TransferOfAllButOne(address, info) ==
  [from |-> address, to |-> Treasury, lamports |-> info.lamports - 1,
   signer |-> FeePayer]

\* SystemProgram.transfer({fromPubkey, toPubkey, lamports: info.lamports})
TransferOf(address, info) ==
  [from |-> address, to |-> Treasury, lamports |-> info.lamports,
   signer |-> FeePayer]

\* sendAndConfirmTransaction answered with a signature, or raised
CloseSend(resp) ==
  IF resp.kind = "raise" THEN CloseCatch(SendFailure) ELSE Success(resp.value)

\* The ledger executes a transfer when the source holds the amount and is a
\* system account; an account left with no lamports is removed
CanLand(led, t) ==
  /\ led[t.from].exists
  /\ led[t.from].owner = SystemProgramId
  /\ led[t.from].lamports >= t.lamports

Landed(led, t) ==
  [led EXCEPT ![t.from] =
     IF @.lamports = t.lamports THEN NullInfo
     ELSE [@ EXCEPT !.lamports = @ - t.lamports]]

\* ------------------------------------------------------------------------
\* utils/logger.ts
\* ------------------------------------------------------------------------
logReclaimOperationNoSignature(accountAddress, amountLamports, success, signature, error, at) ==
  [operation |-> "RECLAIM", accountAddress |-> accountAddress,
   amountLamports |-> amountLamports, success |-> success,
   signature |-> NoSignature, error |-> error, timestamp |-> at]

logReclaimOperation(accountAddress, amountLamports, success, signature, error, at) ==
  [operation |-> "RECLAIM", accountAddress |-> accountAddress,
   amountLamports |-> amountLamports, success |-> success,
   signature |-> signature, error |-> error, timestamp |-> at]

\* payload of logScanResults(totalAccounts, reclaimableCount, total lamports)
logScanResults(totalAccounts, reclaimableCount, totalReclaimableLamports, at) ==
  [operation |-> "SCAN", totalAccounts |-> totalAccounts,
   reclaimableCount |-> reclaimableCount,
   totalReclaimableLamports |-> totalReclaimableLamports, timestamp |-> at]

\* ------------------------------------------------------------------------
\* RentReclaimer.reclaimRent and reclaimAll
\* ------------------------------------------------------------------------
\* the ReclaimResult built from what closeAccountAndReclaimRent returned
ReclaimResult(account, res, at) ==
  [success |-> res.success, accountAddress |-> account.address,
   reclaimedAmount |-> IF res.success THEN account.estimatedRent ELSE 0,
   signature |-> res.signature, error |-> res.error, timestamp |-> at]

LifetimeAfterOverwrite(total, account, res) ==
  IF res.success THEN account.estimatedRent ELSE total

\* if (res.success) this.lifetimeReclaimed += account.estimatedRent
LifetimeAfter(total, account, res) ==
  IF res.success THEN total + account.estimatedRent ELSE total

FinishAttemptDropFailure(p, account, res) ==
  /\ results' = [results EXCEPT ![p] =
                   IF res.success
                   THEN Append(@, ReclaimResult(account, res, now)) ELSE @]
  /\ auditLog' =
       Append(auditLog,
              logReclaimOperation(account.address, account.estimatedRent,
                                  res.success, res.signature, res.error, now))
  /\ lifetimeReclaimed' = LifetimeAfter(lifetimeReclaimed, account, res)
  /\ pc' = [pc EXCEPT ![p] = "reclaimPause"]

\* reclaimRent after closeAccountAndReclaimRent returned res: the result, the
\* audit record and the counter; reclaimAll pushes the result and pauses
FinishAttempt(p, account, res) ==
  /\ results' = [results EXCEPT ![p] = Append(@, ReclaimResult(account, res, now))]
  /\ auditLog' =
       Append(auditLog,
              logReclaimOperation(account.address, account.estimatedRent,
                                  res.success, res.signature, res.error, now))
  /\ lifetimeReclaimed' = LifetimeAfter(lifetimeReclaimed, account, res)
  /\ pc' = [pc EXCEPT ![p] = "reclaimPause"]

\* closeAccountAndReclaimRent to its first await: getAccountInfo and the guards
ReclaimRead(p) ==
  /\ pc[p] = "reclaimRead"
  /\ idx[p] <= Len(reclaimable[p])
  /\ LET account == reclaimable[p][idx[p]] IN
     \E resp \in {Raise, Ok(ledger[account.address])} :
       LET g == CloseGuards(resp) IN
         /\ attemptLog' =
              [attemptLog EXCEPT ![p] =
                 Append(@, [address |-> account.address,
                            read |-> resp.kind,
                            info |-> ledger[account.address],
                            passed |-> g.pass,
                            sent |-> FALSE,
                            send |-> "none",
                            moved |-> 0])]
         /\ IF g.pass
            THEN /\ pc' = [pc EXCEPT ![p] = "reclaimSend"]
                 /\ live' = [live EXCEPT ![p] = resp.value]
                 /\ UNCHANGED <<results, auditLog, lifetimeReclaimed>>
            ELSE /\ FinishAttempt(p, account, g.res)
                 /\ UNCHANGED live
  /\ UNCHANGED <<discoverVars, envVars, transfers, lastScanTime, accounts, idx, reclaimable,
                 evalLog>>

ReclaimSendOnce(p) ==
  /\ pc[p] = "reclaimSend"
  /\ LET account == reclaimable[p][idx[p]]
         t == TransferOf(account.address, live[p])
         signature == Len(transfers) + 1
         submitted == \E j \in 1..Len(transfers) : transfers[j].from = account.address
     IN
       \E resp \in {Raise} \cup (IF CanLand(ledger, t) /\ ~submitted
                                 THEN {Ok(signature)} ELSE {}) :
         /\ transfers' = IF submitted THEN transfers ELSE Append(transfers, t)
         /\ ledger' = IF resp.kind = "ok" THEN Landed(ledger, t) ELSE ledger
         /\ sigs' = IF resp.kind = "ok"
                    THEN [sigs EXCEPT ![account.address] =
                            [present |-> TRUE, blockTime |-> now \div MsPerSecond]]
                    ELSE sigs
         /\ attemptLog' =
              [attemptLog EXCEPT ![p][Len(attemptLog[p])] =
                 [@ EXCEPT !.sent = TRUE, !.send = resp.kind,
                           !.moved = IF resp.kind = "ok" THEN t.lamports ELSE 0]]
         /\ FinishAttempt(p, account, CloseSend(resp))
  /\ UNCHANGED <<discoverVars, config, now, ledgerChanges, lastScanTime, accounts, idx, live,
                 reclaimable, evalLog>>

\* sendAndConfirmTransaction: the transfer lands and is confirmed, or the call
\* raises and nothing moves
ReclaimSend(p) ==
  /\ pc[p] = "reclaimSend"
  /\ LET account == reclaimable[p][idx[p]]
         t == TransferOf(account.address, live[p])
         signature == Len(transfers) + 1
     IN
       \E resp \in {Raise} \cup (IF CanLand(ledger, t) THEN {Ok(signature)} ELSE {}) :
         /\ transfers' = Append(transfers, t)
         /\ ledger' = IF resp.kind = "ok" THEN Landed(ledger, t) ELSE ledger
         /\ sigs' = IF resp.kind = "ok"
                    THEN [sigs EXCEPT ![account.address] =
                            [present |-> TRUE, blockTime |-> now \div MsPerSecond]]
                    ELSE sigs
         /\ attemptLog' =
              [attemptLog EXCEPT ![p][Len(attemptLog[p])] =
                 [@ EXCEPT !.sent = TRUE, !.send = resp.kind,
                           !.moved = IF resp.kind = "ok" THEN t.lamports ELSE 0]]
         /\ FinishAttempt(p, account, CloseSend(resp))
  /\ UNCHANGED <<discoverVars, config, now, ledgerChanges, lastScanTime, accounts, idx, live,
                 reclaimable, evalLog>>

ReclaimPauseNoDelay(p) ==
  /\ pc[p] = "reclaimPause"
  /\ idx' = [idx EXCEPT ![p] = @ + 1]
  /\ pc' = [pc EXCEPT ![p] = "reclaimRead"]
  /\ UNCHANGED <<discoverVars, envVars, reclaimerVars, accounts,
                 live, reclaimable, reclaimVars, evalLog>>

\* await new Promise((r) => setTimeout(r, 1000)), then the next account
ReclaimPause(p) ==
  /\ pc[p] = "reclaimPause"
  /\ now' = now + PauseMs
  /\ idx' = [idx EXCEPT ![p] = @ + 1]
  /\ pc' = [pc EXCEPT ![p] = "reclaimRead"]
  /\ UNCHANGED <<discoverVars, config, ledger, sigs, ledgerChanges, reclaimerVars, accounts,
                 live, reclaimable, reclaimVars, evalLog>>

\* the loop is over: reclaimAll returns results
ReclaimReturn(p) ==
  /\ pc[p] = "reclaimRead"
  /\ idx[p] > Len(reclaimable[p])
  /\ pc' = [pc EXCEPT ![p] = "reclaimDone"]
  /\ UNCHANGED <<discoverVars, envVars, reclaimerVars, accounts, idx, live, reclaimable,
                 reclaimVars, evalLog>>

\* Another party moves lamports into or out of an account while an
\* invocation runs: the balance becomes v; an account left with nothing is
\* removed, a missing one is created as an empty system account
Running(p) == pc[p] \notin {"idle", "evalDone", "reclaimDone"}

Funded(info, v) ==
  IF v = 0 THEN NullInfo
  ELSE IF info.exists THEN [info EXCEPT !.lamports = v]
  ELSE [exists |-> TRUE, lamports |-> v, owner |-> SystemProgramId,
        executable |-> FALSE, dataLength |-> 0]

\* Addresses a running invocation has still to read
Pending ==
  {a \in Addrs : \E p \in Procs :
     /\ Running(p)
     /\ \/ \E k \in idx[p]..Len(accounts[p]) :
             pc[p] \in {"evalFetch", "evalActivity"} /\ accounts[p][k].address = a
        \/ \E k \in idx[p]..Len(reclaimable[p]) :
             /\ pc[p] \in {"reclaimRead", "reclaimSend"} \/ k > idx[p]
             /\ pc[p] \in {"reclaimRead", "reclaimSend", "reclaimPause"}
             /\ reclaimable[p][k].address = a}

LedgerChange ==
  /\ ledgerChanges < MaxLedgerChanges
  /\ \E a \in Pending : \E v \in (0..MaxLamports) \ {ledger[a].lamports} :
       ledger' = [ledger EXCEPT ![a] = Funded(@, v)]
  /\ ledgerChanges' = ledgerChanges + 1
  /\ UNCHANGED <<discoverVars, config, sigs, now, reclaimerVars, pc, accounts, idx, live,
                 reclaimable, reclaimVars, evalLog>>

\* ------------------------------------------------------------------------
\* Specification of reclaim: reclaimAll on a list that evaluate returned,
\* while the ledger may change under it
\* ------------------------------------------------------------------------
\* What evaluate decides for one account, both awaits taken together
EvaluateOne(acct, resp, sigResp, at) ==
  LET info == fetchAccountInfo(resp)
      d == RuleAB(acct, info, config.minRentThreshold)
  IN IF d.act = "activity"
     THEN RuleC(acct, info,
                hasRecentActivity(sigResp, at, config.accountAgeThreshold))
     ELSE d

InitReclaim ==
  /\ DiscoveryUnused
  /\ config \in Configs
  /\ now = NowInit
  /\ ledgerChanges = 0
  /\ transfers = <<>>
  /\ lifetimeReclaimed = 0
  /\ lastScanTime = 0
  /\ auditLog = <<>>
  /\ sigs = [a \in Addrs |-> NoSig]
  /\ \E n \in 0..Len(AddrOrder) :
       /\ ledger \in [Addrs -> {NullInfo} \cup AccountInfos]
       /\ \A a \in Addrs \ Listed(n) : ledger[a] = NullInfo
       /\ \E l \in [1..n -> 0..MaxLamports] :
            LET d == [k \in 1..n |->
                        EvaluateOne(Snapshot(AddrOrder[k], l[k], ledger[AddrOrder[k]]),
                                    Ok(ledger[AddrOrder[k]]), Ok(NoSig), now)]
            IN /\ \A k \in 1..n : d[k].act = "push"
               /\ reclaimable =
                    [p \in Procs |->
                       IF p = Main THEN [k \in 1..n |-> d[k].item] ELSE <<>>]
  /\ accounts = [p \in Procs |-> <<>>]
  /\ pc = [p \in Procs |-> IF p = Main THEN "reclaimRead" ELSE "idle"]
  /\ idx = [p \in Procs |-> 1]
  /\ live = [p \in Procs |-> NullInfo]
  /\ results = [p \in Procs |-> <<>>]
  /\ evalLog = [p \in Procs |-> <<>>]
  /\ attemptLog = [p \in Procs |-> <<>>]

NextReclaim ==
  \/ \E p \in Procs :
       \/ ReclaimRead(p)
       \/ ReclaimSend(p)
       \/ ReclaimPause(p)
       \/ ReclaimReturn(p)
  \/ LedgerChange

SpecReclaim == InitReclaim /\ [][NextReclaim]_vars

\* ------------------------------------------------------------------------
\* Specification of discover: one call of getSponsoredAccounts against any
\* signature window and any ledger
\* ------------------------------------------------------------------------
\* accountKeys of a transaction: distinct addresses in some order
KeyLists ==
  {<<a>> : a \in Addrs}
    \cup {<<x[1], x[2]>> : x \in {y \in Addrs \X Addrs : y[1] # y[2]}}

\* blockTime of the k-th most recent signature of the fee payer
SigTime(k) == NowInit \div MsPerSecond - k

\* The window getSignaturesForAddress returns, most recent first
Histories ==
  UNION {{h \in [1..n -> [signature : 1..n, blockTime : {SigTime(k) : k \in 1..n},
                          accountKeys : KeyLists]] :
            \A k \in 1..n : h[k].signature = k /\ h[k].blockTime = SigTime(k)} :
         n \in 0..Len(AddrOrder)}

\* An invocation of entry point e by p, about to call getSponsoredAccounts
Called(p, e) ==
  /\ entry = [q \in Procs |-> IF q = p THEN e ELSE "none"]
  /\ pc = [q \in Procs |-> IF q = p THEN "discQuery" ELSE "idle"]
  /\ accounts = [q \in Procs |-> <<>>]
  /\ scanned = [q \in Procs |-> <<>>]
  /\ sigPos = [q \in Procs |-> 1]
  /\ keyPos = [q \in Procs |-> 0]
  /\ seen = [q \in Procs |-> {}]
  /\ stats = [q \in Procs |-> <<>>]
  /\ discLog = [q \in Procs |-> <<>>]
  /\ cycleLog = <<>>
  /\ idx = [q \in Procs |-> 1]
  /\ live = [q \in Procs |-> NullInfo]
  /\ reclaimable = [q \in Procs |-> <<>>]
  /\ results = [q \in Procs |-> <<>>]
  /\ evalLog = [q \in Procs |-> <<>>]
  /\ attemptLog = [q \in Procs |-> <<>>]

\* A freshly constructed RentReclaimer
Constructed ==
  /\ now = NowInit
  /\ ledgerChanges = 0
  /\ transfers = <<>>
  /\ lifetimeReclaimed = 0
  /\ lastScanTime = 0
  /\ auditLog = <<>>

InitDiscover ==
  /\ Constructed
  /\ config \in Configs
  /\ history \in Histories
  /\ ledger \in [Addrs -> {NullInfo} \cup AccountInfos]
  /\ sigs = [a \in Addrs |-> NoSig]
  /\ Called(Main, "scan")

NextDiscover ==
  \E p \in Procs :
    \/ DiscoverQuery(p)
    \/ DiscoverParse(p)
    \/ DiscoverFetch(p)
    \/ DiscoverReturn(p)

SpecDiscover == InitDiscover /\ [][NextDiscover]_vars

\* ------------------------------------------------------------------------
\* RentReclaimer.getStats
\* ------------------------------------------------------------------------
RECURSIVE SumLamports(_)
\* scanned.reduce((s, a) => s + a.lamports, 0)
SumLamports(list) ==
  IF list = <<>> THEN 0
  ELSE list[1].lamports + SumLamports(Tail(list))

RECURSIVE SumEstimatedRent(_)
\* reclaimable.reduce((s, a) => s + a.estimatedRent, 0)
SumEstimatedRent(list) ==
  IF list = <<>> THEN 0
  ELSE list[1].estimatedRent + SumEstimatedRent(Tail(list))

getStatsLockedFromReclaimable(scannedList, reclaimableList) ==
  [totalAccountsMonitored |-> Len(scannedList),
   totalRentLocked |-> SumLamports(reclaimableList),
   totalRentReclaimed |-> lifetimeReclaimed,
   reclaimableAccounts |-> Len(reclaimableList),
   estimatedReclaimable |-> SumEstimatedRent(reclaimableList),
   lastScanTime |-> lastScanTime]

getStats(scannedList, reclaimableList) ==
  [totalAccountsMonitored |-> Len(scannedList),
   totalRentLocked |-> SumLamports(scannedList),
   totalRentReclaimed |-> lifetimeReclaimed,
   reclaimableAccounts |-> Len(reclaimableList),
   estimatedReclaimable |-> SumEstimatedRent(reclaimableList),
   lastScanTime |-> lastScanTime]

\* ------------------------------------------------------------------------
\* Entry points: scan (discover, evaluate), stats (discover, evaluate,
\* getStats) and the full cycle runScanAndReclaim
\* ------------------------------------------------------------------------
Entries == {"scan", "stats", "cycle"}

\* identifyReclaimableAccounts(scanned) is called on what discovery returned
CallEvaluate(p) ==
  /\ pc[p] = "discDone"
  /\ entry[p] \in Entries
  /\ accounts' = [accounts EXCEPT ![p] = scanned[p]]
  /\ idx' = [idx EXCEPT ![p] = 1]
  /\ reclaimable' = [reclaimable EXCEPT ![p] = <<>>]
  /\ pc' = [pc EXCEPT ![p] = "evalFetch"]
  /\ UNCHANGED <<envVars, reclaimerVars, live, reclaimVars, evalLog,
                 discoverVars>>

CallReclaimAllNoSummary(p) ==
  /\ pc[p] = "evalDone"
  /\ entry[p] = "cycle"
  /\ idx' = [idx EXCEPT ![p] = 1]
  /\ results' = [results EXCEPT ![p] = <<>>]
  /\ pc' = [pc EXCEPT ![p] = "reclaimRead"]
  /\ UNCHANGED <<envVars, reclaimerVars, accounts, live, reclaimable,
                 attemptLog, evalLog, discoverVars>>

\* runScanAndReclaim after evaluate returned: the scan summary is logged and
\* reclaimAll(reclaimable) is called on what evaluate returned
CallReclaimAll(p) ==
  /\ pc[p] = "evalDone"
  /\ entry[p] = "cycle"
  /\ cycleLog' =
       Append(cycleLog,
              [proc |-> p, event |-> "summary",
               payload |-> logScanResults(Len(scanned[p]), Len(reclaimable[p]),
                                          SumEstimatedRent(reclaimable[p]), now)])
  /\ idx' = [idx EXCEPT ![p] = 1]
  /\ results' = [results EXCEPT ![p] = <<>>]
  /\ pc' = [pc EXCEPT ![p] = "reclaimRead"]
  /\ UNCHANGED <<envVars, reclaimerVars, accounts, live, reclaimable,
                 attemptLog, evalLog, history, entry, scanned, sigPos, keyPos,
                 seen, stats, discLog>>

\* runScanAndReclaim after reclaimAll returned: this.lastScanTime = Date.now()
CycleFinish(p) ==
  /\ pc[p] = "reclaimDone"
  /\ entry[p] = "cycle"
  /\ lastScanTime' = now
  /\ cycleLog' = Append(cycleLog,
                        [proc |-> p, event |-> "finished", finished |-> now])
  /\ pc' = [pc EXCEPT ![p] = "cycleDone"]
  /\ UNCHANGED <<envVars, transfers, lifetimeReclaimed, auditLog, accounts,
                 idx, live, reclaimable, reclaimVars, evalLog, history, entry,
                 scanned, sigPos, keyPos, seen, stats, discLog>>

\* the stats entry points: getStats(sponsored, reclaimable)
GetStats(p) ==
  /\ pc[p] = "evalDone"
  /\ entry[p] = "stats"
  /\ stats' = [stats EXCEPT ![p] = <<getStats(accounts[p], reclaimable[p])>>]
  /\ pc' = [pc EXCEPT ![p] = "statsDone"]
  /\ UNCHANGED <<envVars, reclaimerVars, accounts, idx, live, reclaimable,
                 reclaimVars, evalLog, history, entry, scanned, sigPos, keyPos,
                 seen, discLog, cycleLog>>

\* A stats request made of the same RentReclaimer after a full cycle returned
StartStats(p) ==
  /\ pc[p] = "idle"
  /\ \E q \in Procs \ {p} : pc[q] = "cycleDone"
  /\ \A q \in Procs \ {p} : pc[q] \in {"idle", "cycleDone"}
  /\ entry' = [entry EXCEPT ![p] = "stats"]
  /\ pc' = [pc EXCEPT ![p] = "discQuery"]
  /\ UNCHANGED <<envVars, reclaimerVars, accounts, idx, live, reclaimable,
                 reclaimVars, evalLog, history, scanned, sigPos, keyPos, seen,
                 stats, discLog, cycleLog>>

\* ------------------------------------------------------------------------
\* Specification of the entry points: one invocation of scan, stats or the
\* full cycle of a fresh RentReclaimer, and a stats request after the cycle
\* ------------------------------------------------------------------------
\* Accounts as the ledger keeps them: system-owned, holding the least or the
\* largest amount of lamports
FundedInfos ==
  {i \in AccountInfos :
     i.owner = SystemProgramId /\ i.lamports \in {1, MaxLamports}}

\* Addresses that take part in a transaction of the window
Participants(h) ==
  UNION {{h[k].accountKeys[j] : j \in DOMAIN h[k].accountKeys} : k \in DOMAIN h}

\* The ledger of the addresses of the window; the others are never read
Ledgers(h) ==
  {l \in [Addrs -> {NullInfo} \cup FundedInfos] :
     \A a \in Addrs \ Participants(h) : l[a] = NullInfo}

\* The scan entry point is the stats one without its last call.  The
\* addresses are interchangeable: the most recent transaction names the first
InitCycle ==
  /\ Constructed
  /\ config \in Configs
  /\ history \in {h \in Histories :
                    h = <<>> \/ h[1].accountKeys[1] = AddrOrder[1]}
  /\ ledger \in Ledgers(history)
  /\ sigs = [a \in Addrs |-> NoSig]
  /\ \E e \in {"stats", "cycle"} : Called(Main, e)

NextCycle ==
  \E p \in Procs :
    \/ DiscoverQuery(p)
    \/ DiscoverParse(p)
    \/ DiscoverFetch(p)
    \/ DiscoverReturn(p)
    \/ CallEvaluate(p)
    \/ EvalFetch(p)
    \/ EvalActivity(p)
    \/ EvalReturn(p)
    \/ GetStats(p)
    \/ CallReclaimAll(p)
    \/ ReclaimRead(p)
    \/ ReclaimSend(p)
    \/ ReclaimPause(p)
    \/ ReclaimReturn(p)
    \/ CycleFinish(p)

SpecCycle == InitCycle /\ [][NextCycle]_vars

\* ------------------------------------------------------------------------
\* Specification of stats: a stats request made of a fresh RentReclaimer, or
\* a full cycle followed by a stats request made of the same RentReclaimer,
\* on a window of one transaction
\* ------------------------------------------------------------------------
InitStats ==
  /\ Constructed
  /\ config \in Configs
  /\ history \in {h \in Histories : Len(h) = 1 /\ Len(h[1].accountKeys) = 1}
  /\ ledger \in Ledgers(history)
  /\ sigs = [a \in Addrs |-> NoSig]
  /\ \E e \in {"stats", "cycle"} : Called(Main, e)

NextStats ==
  \/ NextCycle
  \/ \E p \in Procs : StartStats(p)

SpecStats == InitStats /\ [][NextStats]_vars

\* ------------------------------------------------------------------------
\* Specification of concurrent cycles: a second full cycle is requested of
\* the same RentReclaimer while the first one runs or after it returned; the
\* two interleave at their awaits
\* ------------------------------------------------------------------------
\* POST /api/reclaim: reclaimer.runScanAndReclaim() of the shared reclaimer
StartCycle(p) ==
  /\ pc[p] = "idle"
  /\ entry' = [entry EXCEPT ![p] = "cycle"]
  /\ pc' = [pc EXCEPT ![p] = "discQuery"]
  /\ UNCHANGED <<envVars, reclaimerVars, accounts, idx, live, reclaimable,
                 reclaimVars, evalLog, history, scanned, sigPos, keyPos, seen,
                 stats, discLog, cycleLog>>

\* A window of one transaction that names one account
InitRace ==
  /\ Constructed
  /\ config \in Configs
  /\ history \in {h \in Histories :
                    Len(h) = 1 /\ h[1].accountKeys = <<AddrOrder[1]>>}
  /\ ledger \in Ledgers(history)
  /\ sigs = [a \in Addrs |-> NoSig]
  /\ Called(Main, "cycle")

NextRace ==
  \E p \in Procs :
    \/ StartCycle(p)
    \/ DiscoverQuery(p)
    \/ DiscoverParse(p)
    \/ DiscoverFetch(p)
    \/ DiscoverReturn(p)
    \/ CallEvaluate(p)
    \/ EvalFetch(p)
    \/ EvalActivity(p)
    \/ EvalReturn(p)
    \/ CallReclaimAll(p)
    \/ ReclaimRead(p)
    \/ ReclaimSend(p)
    \/ ReclaimPause(p)
    \/ ReclaimReturn(p)
    \/ CycleFinish(p)

SpecRace == InitRace /\ [][NextRace]_vars

\* ------------------------------------------------------------------------
\* Specification of a cycle over the fee payer's own transactions: the
\* signatures getSignaturesForAddress(feePayer) returns are of transactions
\* that name the fee payer, and a reclaim transaction names the treasury
\* ------------------------------------------------------------------------
OwnAddrs == {FeePayer, Treasury, AddrOrder[1]}

\* Wallets: system accounts without data that hold lamports
Wallets == {i \in FundedInfos : i.dataLength = 0}

\* One transaction signed by the fee payer, naming a sponsored account or,
\* as an earlier reclaim does, the treasury
OwnHistories ==
  {<<[signature |-> 1, blockTime |-> SigTime(1), accountKeys |-> <<FeePayer, a>>]>> :
     a \in {AddrOrder[1], Treasury}}

InitOwn ==
  /\ Constructed
  /\ config \in Configs
  /\ history \in OwnHistories
  /\ ledger \in {l \in [OwnAddrs -> {NullInfo} \cup FundedInfos] :
                   /\ l[FeePayer] \in Wallets
                   /\ l[Treasury] \in Wallets \cup {NullInfo}
                   /\ \A a \in OwnAddrs \ (Participants(history) \cup {Treasury}) :
                        l[a] = NullInfo}
  /\ sigs = [a \in OwnAddrs |->
               IF a \in Participants(history)
               THEN [present |-> TRUE, blockTime |-> SigTime(1)]
               ELSE NoSig]
  /\ \E e \in {"stats", "cycle"} : Called(Main, e)

SpecOwn == InitOwn /\ [][NextCycle]_vars

\* ------------------------------------------------------------------------
\* Specification of concurrent batches: two invocations of reclaimAll of the
\* same RentReclaimer on the list evaluate returned to both, interleaving at
\* their awaits
\* ------------------------------------------------------------------------
InitBatches ==
  /\ DiscoveryUnused
  /\ Constructed
  /\ config \in Configs
  /\ sigs = [a \in Addrs |-> NoSig]
  /\ \E n \in 1..Len(AddrOrder) :
       /\ ledger \in [Addrs -> {NullInfo} \cup FundedInfos]
       /\ \A a \in Addrs \ Listed(n) : ledger[a] = NullInfo
       /\ LET d == [k \in 1..n |->
                      EvaluateOne(Snapshot(AddrOrder[k], ledger[AddrOrder[k]].lamports,
                                           ledger[AddrOrder[k]]),
                                  Ok(ledger[AddrOrder[k]]), Ok(NoSig), now)]
          IN /\ \A k \in 1..n : d[k].act = "push"
             /\ reclaimable = [p \in Procs |-> [k \in 1..n |-> d[k].item]]
  /\ accounts = [p \in Procs |-> <<>>]
  /\ pc = [p \in Procs |-> "reclaimRead"]
  /\ idx = [p \in Procs |-> 1]
  /\ live = [p \in Procs |-> NullInfo]
  /\ results = [p \in Procs |-> <<>>]
  /\ evalLog = [p \in Procs |-> <<>>]
  /\ attemptLog = [p \in Procs |-> <<>>]

NextBatches ==
  \E p \in Procs :
    \/ ReclaimRead(p)
    \/ ReclaimSend(p)
    \/ ReclaimPause(p)
    \/ ReclaimReturn(p)

SpecBatches == InitBatches /\ [][NextBatches]_vars

\* ------------------------------------------------------------------------
\* Vocabulary of the properties of evaluate
\* ------------------------------------------------------------------------
\* Positions of the input whose evaluation is complete
Evaluated(p) == {k \in 1..Len(evalLog[p]) : k < idx[p]}

\* Entries of the output for address a
OutputsFor(p, a) ==
  {k \in 1..Len(reclaimable[p]) : reclaimable[p][k].address = a}

Excluded(p, a) == OutputsFor(p, a) = {}

\* a is in the output exactly once, with this reason and estimated amount
ReturnedAs(p, a, reason, amount) ==
  /\ Cardinality(OutputsFor(p, a)) = 1
  /\ \A k \in OutputsFor(p, a) :
       /\ reclaimable[p][k].reason = reason
       /\ reclaimable[p][k].estimatedRent = amount

\* The ledger answered the snapshot lookup of entry e with an existing account
Observed(e) == e.fetch = "ok" /\ e.info.exists

ElapsedMs(at, blockTime) == at - blockTime * MsPerSecond

\* The signature carries a timestamp less than the age threshold old
RecentlySigned(sig, at) ==
  /\ sig.present
  /\ sig.blockTime # NoTime
  /\ ElapsedMs(at, sig.blockTime) < config.accountAgeThreshold * MsPerDay

\* The signature carries a timestamp at least the age threshold old
SignedLongAgo(sig, at) ==
  /\ sig.present
  /\ sig.blockTime # NoTime
  /\ ElapsedMs(at, sig.blockTime) >= config.accountAgeThreshold * MsPerDay

\* ------------------------------------------------------------------------
\* C1: an account whose balance meets the threshold and whose most recent
\* signature is younger than accountAgeThreshold days is not in the output
\* of evaluate, whatever its payload length.  Stated for accounts with a
\* non-zero balance whose snapshot lookup answered.  The code returns such
\* an account when its payload is empty: rule B asks for no activity.
\* ------------------------------------------------------------------------
C1_RecentlyActiveExcluded ==
  \A p \in Procs : \A k \in Evaluated(p) :
    LET e == evalLog[p][k] IN
      ( /\ Observed(e)
        /\ e.info.lamports > 0
        /\ e.info.lamports >= config.minRentThreshold
        /\ RecentlySigned(e.sig, now) )
      => Excluded(p, e.acct.address)

\* ------------------------------------------------------------------------
\* C2: an account whose snapshot lookup raises is skipped by evaluate: it
\* is not in the output under any reason.  The code turns the failure into
\* "no such account" and returns the account as closed.  Stated for accounts
\* that exist on the ledger with a non-zero balance.
\* ------------------------------------------------------------------------
C2_FailedLookupSkipped ==
  \A p \in Procs : \A k \in Evaluated(p) :
    LET e == evalLog[p][k] IN
      (e.fetch = "raise" /\ e.info.exists /\ e.info.lamports > 0)
      => Excluded(p, e.acct.address)

ReturnedWithBalance(p, a, reason, amount) ==
  /\ ReturnedAs(p, a, reason, amount)
  /\ \A k \in OutputsFor(p, a) : reclaimable[p][k].lamports = amount

LookupFoundNone(e) ==
  e.activity.asked /\ e.activity.kind = "ok" /\ ~e.activity.sig.present

LookupFailed(e) == e.activity.asked /\ e.activity.kind = "raise"

C10_FailSafeActivity ==
  \A p \in Procs : \A k \in Evaluated(p) :
    LET e == evalLog[p][k] IN
      ( \/ LookupFailed(e)
        \/ /\ e.activity.asked /\ e.activity.kind = "ok"
           /\ e.activity.sig.present
           /\ e.activity.sig.blockTime \in {NoTime, 0} )
      => \A j \in OutputsFor(p, e.acct.address) :
           reclaimable[p][j].reason # ACCOUNT_INACTIVE

\* A failed lookup and a signature without timestamp in one finished
\* evaluation, both accounts left out
C10_Witness ==
  /\ pc[Main] = "evalDone"
  /\ \E k \in Evaluated(Main) :
       LookupFailed(evalLog[Main][k]) /\ Excluded(Main, evalLog[Main][k].acct.address)
  /\ \E k \in Evaluated(Main) :
       LET e == evalLog[Main][k] IN
         /\ e.activity.asked /\ e.activity.kind = "ok"
         /\ e.activity.sig.present /\ e.activity.sig.blockTime = NoTime
         /\ Excluded(Main, e.acct.address)

\* ------------------------------------------------------------------------
\* Vocabulary of the properties of reclaim
\* ------------------------------------------------------------------------
\* Attempts of invocation p that have returned their result
Attempted(p) == 1..Len(results[p])

\* The attempt's fresh read found an account the guards let through
Transferable(info) ==
  info.exists /\ info.lamports # 0 /\ info.owner = SystemProgramId

RECURSIVE SumMoved(_, _)
\* Lamports moved by the successful attempts among the first n of p
SumMoved(p, n) ==
  IF n = 0 THEN 0
  ELSE SumMoved(p, n - 1)
       + (IF results[p][n].success THEN attemptLog[p][n].moved ELSE 0)

RECURSIVE SumAll(_)
SumAll(ps) ==
  IF ps = {} THEN 0
  ELSE LET p == CHOOSE q \in ps : TRUE
       IN SumMoved(p, Len(results[p])) + SumAll(ps \ {p})

\* ------------------------------------------------------------------------
\* C3: a successful reclaim result reports as reclaimedAmount the amount of
\* its transfer instruction (the balance read just before the transfer), a
\* failed one reports 0, also when the balance changed since evaluation.
\* The code reports the estimate made at evaluation.
\* ------------------------------------------------------------------------
C3_ReportedAmountIsMoved ==
  \A p \in Procs : \A k \in Attempted(p) :
    /\ results[p][k].success
         => results[p][k].reclaimedAmount = attemptLog[p][k].moved
    /\ ~results[p][k].success => results[p][k].reclaimedAmount = 0

\* ------------------------------------------------------------------------
\* C6: the lifetime-reclaimed counter equals the sum, over the successful
\* attempts, of the amount moved by the attempt's transfer.  The code adds
\* the estimate made at evaluation (the fault of C3).
\* ------------------------------------------------------------------------
C6_LifetimeIsSumMoved == lifetimeReclaimed = SumAll(Procs)

\* ------------------------------------------------------------------------
\* C4: a reclaim attempt submits a transfer only if its own fresh read found
\* the account existing, with non-zero balance and owned by the system
\* program; when the read finds otherwise nothing is submitted and the
\* attempt returns a failure with reclaimedAmount 0 and the reason of the
\* first failing check: does not exist, zero balance, program-owned (naming
\* the owner).
\* ------------------------------------------------------------------------
C4_TransferOnlyAfterGuards ==
  \A p \in Procs : \A k \in 1..Len(attemptLog[p]) :
    LET a == attemptLog[p][k] IN
      /\ a.sent => a.read = "ok" /\ Transferable(a.info)
      /\ (a.read = "ok" /\ ~Transferable(a.info))
         => /\ ~a.sent
            /\ k \in Attempted(p)
            /\ ~results[p][k].success
            /\ results[p][k].reclaimedAmount = 0
            /\ results[p][k].signature = NoSignature
            /\ results[p][k].error =
                 IF ~a.info.exists
                 THEN <<"Account does not exist or is already closed.">>
                 ELSE IF a.info.lamports = 0
                 THEN <<"Account already has zero balance.">>
                 ELSE <<"Account is owned by ", a.info.owner,
                        " - needs a program-specific close instruction.">>

\* One batch in which a program-owned account was refused without a
\* transfer and another account's transfer was submitted
C4_Witness ==
  /\ Len(transfers) = 1
  /\ \E k \in Attempted(Main) :
       /\ attemptLog[Main][k].read = "ok"
       /\ attemptLog[Main][k].info.exists
       /\ attemptLog[Main][k].info.lamports > 0
       /\ attemptLog[Main][k].info.owner = TokenProgramId
       /\ ~attemptLog[Main][k].sent
       /\ ~results[Main][k].success
  /\ \E k \in Attempted(Main) :
       attemptLog[Main][k].sent /\ results[Main][k].success

\* ------------------------------------------------------------------------
\* C5: reclaimRent never raises: when reading the account or sending the
\* transfer raises, the attempt returns a result with success = false and
\* the error text; and reclaimAll attempts every account of its input, in
\* order, whatever failed before.
\* ------------------------------------------------------------------------
C5_FailuresBecomeResults ==
  \A p \in Procs :
    /\ \A k \in 1..Len(attemptLog[p]) :
         LET a == attemptLog[p][k] IN
           /\ a.address = reclaimable[p][k].address
           /\ (a.read = "raise" \/ a.send = "raise")
              => /\ k \in Attempted(p)
                 /\ ~results[p][k].success
                 /\ results[p][k].reclaimedAmount = 0
                 /\ results[p][k].error =
                      IF a.read = "raise" THEN ReadFailure ELSE SendFailure
    /\ pc[p] = "reclaimDone"
       => /\ Len(attemptLog[p]) = Len(reclaimable[p])
          /\ Len(results[p]) = Len(reclaimable[p])

\* A finished batch whose first attempt failed on a raise and whose second
\* attempt succeeded
C5_Witness ==
  /\ pc[Main] = "reclaimDone"
  /\ Len(results[Main]) = 2
  /\ attemptLog[Main][1].send = "raise"
  /\ ~results[Main][1].success
  /\ results[Main][1].error = SendFailure
  /\ results[Main][2].success

\* ------------------------------------------------------------------------
\* C11 as stated: every entry evaluate returns has an estimated amount > 0
\* and >= the configured threshold, and an account whose discovery-time and
\* current balances are both below the threshold is excluded.  Fails under a
\* threshold of 0: a closed account last seen with balance 0 is returned with
\* an estimate of 0.
\* ------------------------------------------------------------------------
C11_EstimatePositive ==
  \A p \in Procs :
    /\ \A j \in 1..Len(reclaimable[p]) :
         /\ reclaimable[p][j].estimatedRent > 0
         /\ reclaimable[p][j].estimatedRent >= config.minRentThreshold
    /\ \A k \in Evaluated(p) :
         LET e == evalLog[p][k] IN
           ( /\ e.acct.lamports < config.minRentThreshold
             /\ e.info.lamports < config.minRentThreshold )
           => Excluded(p, e.acct.address)

\* ------------------------------------------------------------------------
\* C11 (amended): every entry evaluate returns has an estimated amount >=
\* the configured threshold, which is > 0 whenever the threshold is > 0;
\* and an account whose discovery-time and current balances are both below
\* the threshold is excluded, whatever its payload and activity.
\* ------------------------------------------------------------------------
C11_EstimateMeetsThreshold ==
  \A p \in Procs :
    /\ \A j \in 1..Len(reclaimable[p]) :
         /\ reclaimable[p][j].estimatedRent >= config.minRentThreshold
         /\ reclaimable[p][j].estimatedRent >= 0
         /\ config.minRentThreshold > 0 => reclaimable[p][j].estimatedRent > 0
    /\ \A k \in Evaluated(p) :
         LET e == evalLog[p][k] IN
           ( /\ e.acct.lamports < config.minRentThreshold
             /\ e.info.lamports < config.minRentThreshold )
           => Excluded(p, e.acct.address)

\* One finished evaluation under a threshold > 0 that returned an account at
\* the threshold and left out a funded, empty, never-signed account below it
C11_Witness ==
  /\ pc[Main] = "evalDone"
  /\ config.minRentThreshold > 0
  /\ \E j \in 1..Len(reclaimable[Main]) :
       reclaimable[Main][j].estimatedRent = config.minRentThreshold
  /\ \E k \in Evaluated(Main) :
       LET e == evalLog[Main][k] IN
         /\ Observed(e)
         /\ e.info.lamports > 0
         /\ e.info.lamports < config.minRentThreshold
         /\ e.acct.lamports < config.minRentThreshold
         /\ e.info.dataLength = 0
         /\ ~e.sig.present
         /\ Excluded(Main, e.acct.address)

\* ------------------------------------------------------------------------
\* C12: reclaimAll on a list of n accounts returns exactly n results, and
\* the i-th result carries the address of the i-th input account, whatever
\* mix of successes and failures occurs; while it runs, the results so far
\* are those of the first accounts of the input, in order.
\* ------------------------------------------------------------------------
C12_OneResultPerInputInOrder ==
  \A p \in Procs :
    /\ Len(results[p]) <= Len(reclaimable[p])
    /\ \A k \in 1..Len(results[p]) :
         results[p][k].accountAddress = reclaimable[p][k].address
    /\ pc[p] = "reclaimDone" => Len(results[p]) = Len(reclaimable[p])
    /\ pc[p] \in {"reclaimRead", "reclaimSend"}
         => Len(results[p]) = idx[p] - 1

\* A returned batch of two: the first attempt succeeded, the second failed
C12_Witness ==
  /\ pc[Main] = "reclaimDone"
  /\ Len(reclaimable[Main]) = 2
  /\ Len(results[Main]) = 2
  /\ results[Main][1].success
  /\ ~results[Main][2].success
  /\ results[Main][1].accountAddress # results[Main][2].accountAddress

\* ------------------------------------------------------------------------
\* Vocabulary of the properties of discover and of the full cycle
\* ------------------------------------------------------------------------
\* Positions of a list of accounts that hold address a
PositionsOf(list, a) == {k \in 1..Len(list) : list[k].address = a}

\* Transfers submitted with address a as their source
TransfersFrom(a) == {k \in 1..Len(transfers) : transfers[k].from = a}

\* Signatures of the window whose transaction names address a
SignaturesNaming(a) ==
  {k \in 1..Len(history) :
     \E j \in 1..Len(history[k].accountKeys) : history[k].accountKeys[j] = a}

\* ------------------------------------------------------------------------
\* C13: within one full cycle every address is the target of at most one
\* reclaim attempt and the source of at most one submitted transfer: the
\* batch names no address twice and nothing is retried after a failure.
\* ------------------------------------------------------------------------
C13_OneAttemptPerAddress ==
  \A p \in Procs : \A a \in Addrs :
    entry[p] = "cycle"
    => /\ Cardinality(PositionsOf(reclaimable[p], a)) <= 1
       /\ Cardinality(PositionsOf(attemptLog[p], a)) <= 1
       /\ Cardinality(TransfersFrom(a)) <= 1
       /\ Cardinality({k \in 1..Len(attemptLog[p]) :
                         attemptLog[p][k].address = a /\ attemptLog[p][k].sent}) <= 1

\* A finished cycle over a window in which an address takes part in two
\* transactions: its one transfer failed and it was not attempted again
C13_Witness ==
  /\ pc[Main] = "cycleDone"
  /\ \E a \in Addrs :
       /\ Cardinality(SignaturesNaming(a)) = 2
       /\ \A k \in SignaturesNaming(a) :
            \E j \in 1..Len(discLog[Main]) :
              /\ discLog[Main][j].call = "transaction"
              /\ discLog[Main][j].sig = k
              /\ discLog[Main][j].answer = "ok"
       /\ Cardinality(TransfersFrom(a)) = 1
       /\ \E k \in PositionsOf(attemptLog[Main], a) :
            /\ attemptLog[Main][k].send = "raise"
            /\ ~results[Main][k].success

\* The audit record and the result speak of the same attempt
SameAttempt(record, result) ==
  /\ record.operation = "RECLAIM"
  /\ record.accountAddress = result.accountAddress
  /\ record.success = result.success
  /\ record.signature = result.signature
  /\ record.error = result.error

\* Results returned so far, by all invocations
AllResults ==
  {x \in Procs \X (1..Len(AddrOrder)) : x[2] <= Len(results[x[1]])}

\* ------------------------------------------------------------------------
\* C14: every reclaim attempt, successful or failed, writes exactly one
\* audit record, whose address, success flag, signature and error are those
\* of the result returned for the attempt; a signature is present iff the
\* attempt succeeded and an error iff it failed; the audit records of a
\* batch are as many as its results and in the same order.
\* ------------------------------------------------------------------------
C14_OneAuditRecordPerAttempt ==
  /\ Len(auditLog) = Cardinality(AllResults)
  /\ \A p \in Procs :
       (\A q \in Procs \ {p} : results[q] = <<>>)
       => \A k \in 1..Len(results[p]) : SameAttempt(auditLog[k], results[p][k])
  /\ \A k \in 1..Len(auditLog) :
       /\ auditLog[k].success <=> auditLog[k].signature # NoSignature
       /\ ~auditLog[k].success <=> auditLog[k].error # NoError
  /\ \A p \in Procs : \A k \in 1..Len(results[p]) :
       /\ results[p][k].success <=> results[p][k].signature # NoSignature
       /\ ~results[p][k].success <=> results[p][k].error # NoError

\* A returned batch of two with its two audit records: a failure whose read
\* raised, then a success with its signature
C14_Witness ==
  /\ pc[Main] = "reclaimDone"
  /\ Len(results[Main]) = 2
  /\ Len(auditLog) = 2
  /\ ~auditLog[1].success
  /\ auditLog[1].error = ReadFailure
  /\ auditLog[1].signature = NoSignature
  /\ auditLog[2].success
  /\ auditLog[2].signature # NoSignature
  /\ auditLog[2].error = NoError
  /\ auditLog[1].accountAddress = reclaimable[Main][1].address
  /\ auditLog[2].accountAddress = reclaimable[Main][2].address

\* Signatures whose transaction discovery p parsed
ParsedBy(p) ==
  {discLog[p][j].sig : j \in {i \in 1..Len(discLog[p]) :
                                /\ discLog[p][i].call = "transaction"
                                /\ discLog[p][i].answer = "ok"}}

Least(S) == CHOOSE x \in S : \A y \in S : x <= y

\* Position of address a among the accountKeys of signature k
KeyIndex(k, a) ==
  Least({j \in 1..Len(history[k].accountKeys) : history[k].accountKeys[j] = a})

\* The entries of list are in the order of sigOf, then of the accountKeys
OrderedBy(list, sigOf(_)) ==
  \A j, k \in 1..Len(list) :
    j < k
    => \/ sigOf(list[j].address) < sigOf(list[k].address)
       \/ /\ sigOf(list[j].address) = sigOf(list[k].address)
          /\ KeyIndex(sigOf(list[j].address), list[j].address)
               < KeyIndex(sigOf(list[k].address), list[k].address)

\* ------------------------------------------------------------------------
\* C15 as stated: discover returns no two entries with the same address;
\* the entry kept for an address is that of the most recent signature in
\* which the address appears, and the entries are ordered by it.  Fails when
\* the transaction of that signature could not be parsed: the address is
\* then first observed in an older signature.
\* ------------------------------------------------------------------------
C15_KeptFromMostRecentSignature ==
  \A p \in Procs :
    LET first(a) == Least(SignaturesNaming(a)) IN
      /\ \A a \in Addrs : Cardinality(PositionsOf(scanned[p], a)) <= 1
      /\ \A k \in 1..Len(scanned[p]) :
           /\ SignaturesNaming(scanned[p][k].address) # {}
           /\ scanned[p][k].lastActivity
                = history[first(scanned[p][k].address)].blockTime
      /\ OrderedBy(scanned[p], first)

\* ------------------------------------------------------------------------
\* C15 (amended): discover returns no two entries with the same address,
\* even when an address takes part in several transactions of the window;
\* the entry kept for an address is that of its first observation, the most
\* recent signature whose transaction was parsed and names the address, and
\* the entries are ordered by first observation.
\* ------------------------------------------------------------------------
C15_FirstObservationWins ==
  \A p \in Procs :
    LET first(a) == Least(SignaturesNaming(a) \cap ParsedBy(p)) IN
      /\ \A a \in Addrs : Cardinality(PositionsOf(scanned[p], a)) <= 1
      /\ \A k \in 1..Len(scanned[p]) :
           /\ SignaturesNaming(scanned[p][k].address) \cap ParsedBy(p) # {}
           /\ scanned[p][k].lastActivity
                = history[first(scanned[p][k].address)].blockTime
      /\ OrderedBy(scanned[p], first)

\* A returned list of two entries, where the address of the first entry
\* takes part in both transactions of the window, both parsed
C15_Witness ==
  /\ pc[Main] = "discDone"
  /\ Len(scanned[Main]) = 2
  /\ ParsedBy(Main) = {1, 2}
  /\ SignaturesNaming(scanned[Main][1].address) = {1, 2}
  /\ SignaturesNaming(scanned[Main][2].address) = {2}
  /\ scanned[Main][1].lastActivity = history[1].blockTime
  /\ scanned[Main][2].lastActivity = history[2].blockTime

\* Discovery p asked for the transaction of signature k
AskedFor(p, k) ==
  \E j \in 1..Len(discLog[p]) :
    discLog[p][j].call = "transaction" /\ discLog[p][j].sig = k

\* The history query of discovery p raised
QueryFailed(p) ==
  /\ discLog[p] # <<>>
  /\ discLog[p][1].call = "signatures"
  /\ discLog[p][1].answer = "raise"

\* ------------------------------------------------------------------------
\* C16: discover never raises: it always returns a list.  When the history
\* query fails the list is empty; otherwise the pass was not cut short:
\* every signature of the window was asked for, and every address named by
\* a parsed transaction is in the list.
\* ------------------------------------------------------------------------
C16_EmptyOrComplete ==
  \A p \in Procs :
    /\ pc[p] \in {"idle", "discQuery", "discParse", "discFetch", "discDone"}
    /\ pc[p] = "discDone"
       => IF QueryFailed(p)
          THEN scanned[p] = <<>>
          ELSE /\ \A k \in 1..Len(history) : AskedFor(p, k)
               /\ \A k \in ParsedBy(p) :
                    \A j \in 1..Len(history[k].accountKeys) :
                      PositionsOf(scanned[p], history[k].accountKeys[j]) # {}

\* A returned pass in which the first transaction raised and the accounts of
\* the second, whose own snapshot lookups raised, are all in the list
C16_Witness ==
  /\ pc[Main] = "discDone"
  /\ Len(history) = 2
  /\ ParsedBy(Main) = {2}
  /\ \E j \in 1..Len(discLog[Main]) :
       /\ discLog[Main][j].call = "transaction"
       /\ discLog[Main][j].sig = 1
       /\ discLog[Main][j].answer = "raise"
  /\ Len(history[2].accountKeys) = 2
  /\ Len(scanned[Main]) = 2
  /\ \A j \in 1..Len(discLog[Main]) :
       discLog[Main][j].call = "account" => discLog[Main][j].answer = "raise"

\* Invocation p takes the step
Stepped(p) ==
  \/ pc'[p] # pc[p]
  \/ idx'[p] # idx[p]
  \/ sigPos'[p] # sigPos[p]
  \/ keyPos'[p] # keyPos[p]

\* p is inside getSponsoredAccounts or identifyReclaimableAccounts, or is
\* about to call identifyReclaimableAccounts
Scanning(p) ==
  pc[p] \in {"discQuery", "discParse", "discFetch", "discDone", "evalFetch",
             "evalActivity"}

\* p is inside reclaimAll, or in runScanAndReclaim after reclaimAll returned
Reclaiming(p) ==
  /\ entry[p] \in {"cycle", "none"}
  /\ pc[p] \in {"reclaimRead", "reclaimSend", "reclaimPause", "reclaimDone"}

\* ------------------------------------------------------------------------
\* C17: no step of discover or evaluate, and no step of an invocation of the
\* scan or stats entry points, submits a transfer, changes the ledger or
\* changes lifetimeReclaimed or lastScanTime; a step that does any of these
\* is a step of reclaimRent / reclaimAll or the end of runScanAndReclaim.
\* ------------------------------------------------------------------------
C17_ScanPathsReadOnly ==
  [][ /\ \A p \in Procs :
           (Stepped(p) /\ (Scanning(p) \/ entry[p] \in {"scan", "stats"}))
           => UNCHANGED <<transfers, ledger, lifetimeReclaimed, lastScanTime>>
      /\ ~UNCHANGED <<transfers, ledger, lifetimeReclaimed, lastScanTime>>
           => \E p \in Procs : Stepped(p) /\ Reclaiming(p) ]_vars

\* A stats invocation that returned after finding an account to reclaim:
\* nothing was submitted and the two fields are as constructed
C17_Witness ==
  /\ pc[Main] = "statsDone"
  /\ entry[Main] = "stats"
  /\ reclaimable[Main] # <<>>
  /\ \E k \in 1..Len(reclaimable[Main]) : reclaimable[Main][k].estimatedRent > 0
  /\ transfers = <<>>
  /\ lifetimeReclaimed = 0
  /\ lastScanTime = 0
  /\ auditLog = <<>>

RECURSIVE SumTo(_, _)
\* Sum of the first n numbers of the sequence f
SumTo(f, n) == IF n = 0 THEN 0 ELSE f[n] + SumTo(f, n - 1)

\* Time at which the last completed full cycle finished, 0 if none has
LastCycleTime ==
  LET done == {k \in 1..Len(cycleLog) : cycleLog[k].event = "finished"}
  IN IF done = {} THEN 0
     ELSE cycleLog[CHOOSE k \in done : \A j \in done : j <= k].finished

\* The RentStats st aggregate the lists and the two fields of the Reclaimer
StatsOf(st, scannedList, reclaimableList) ==
  /\ st.totalAccountsMonitored = Len(scannedList)
  /\ st.totalRentLocked
       = SumTo([k \in 1..Len(scannedList) |-> scannedList[k].lamports],
               Len(scannedList))
  /\ st.totalRentReclaimed = lifetimeReclaimed
  /\ st.reclaimableAccounts = Len(reclaimableList)
  /\ st.estimatedReclaimable
       = SumTo([k \in 1..Len(reclaimableList) |-> reclaimableList[k].estimatedRent],
               Len(reclaimableList))
  /\ st.lastScanTime = LastCycleTime

C19_FailedSnapshotSkipped ==
  \A p \in Procs : \A j \in 1..Len(discLog[p]) :
    ( /\ discLog[p][j].call = "account"
      /\ discLog[p][j].answer = "raise"
      /\ discLog[p][j].info.exists )
    => PositionsOf(scanned[p], discLog[p][j].address) = {}

\* ------------------------------------------------------------------------
\* C20: in discover, an address whose snapshot lookup answers that no
\* account exists is in the returned list exactly once, with balance 0,
\* empty owner, executable false and payload length 0.
\* ------------------------------------------------------------------------
C20_AbsentAccountRecorded ==
  \A p \in Procs : \A j \in 1..Len(discLog[p]) :
    ( /\ discLog[p][j].call = "account"
      /\ discLog[p][j].answer = "ok"
      /\ ~discLog[p][j].info.exists )
    => /\ Cardinality(PositionsOf(scanned[p], discLog[p][j].address)) = 1
       /\ \A k \in PositionsOf(scanned[p], discLog[p][j].address) :
            /\ scanned[p][k].lamports = 0
            /\ scanned[p][k].owner = ""
            /\ scanned[p][k].executable = FALSE
            /\ scanned[p][k].dataLength = 0

\* A returned list holding, once, an address that has no account and takes
\* part in both transactions of the window, next to an existing account
C20_Witness ==
  /\ pc[Main] = "discDone"
  /\ ParsedBy(Main) = {1, 2}
  /\ Len(scanned[Main]) = 2
  /\ \E a \in Addrs :
       /\ ~ledger[a].exists
       /\ SignaturesNaming(a) = {1, 2}
       /\ \E j \in 1..Len(discLog[Main]) :
            /\ discLog[Main][j].call = "account"
            /\ discLog[Main][j].address = a
            /\ discLog[Main][j].answer = "ok"
       /\ \E k \in PositionsOf(scanned[Main], a) :
            scanned[Main][k].lamports = 0 /\ scanned[Main][k].owner = ""
  /\ \E k \in 1..Len(scanned[Main]) : scanned[Main][k].lamports > 0

\* Discovery p was answered `answer` when it asked for signature k
AnsweredAs(p, k, answer) ==
  \E j \in 1..Len(discLog[p]) :
    /\ discLog[p][j].call = "transaction"
    /\ discLog[p][j].sig = k
    /\ discLog[p][j].answer = answer

\* ------------------------------------------------------------------------
\* C21: when the transaction of a signature cannot be fetched or parsed
\* (the call raises or returns null) only that signature is skipped: the
\* pass asks for every other signature of the window, and the returned list
\* holds exactly the addresses named by the transactions that were parsed;
\* discover returns, it does not raise.
\* ------------------------------------------------------------------------
C21_OnlyFailedSignatureSkipped ==
  \A p \in Procs :
    (pc[p] = "discDone" /\ ~QueryFailed(p))
    => /\ \A k \in 1..Len(history) :
            \/ AnsweredAs(p, k, "ok")
            \/ AnsweredAs(p, k, "null")
            \/ AnsweredAs(p, k, "raise")
       /\ \A a \in Addrs :
            PositionsOf(scanned[p], a) # {}
            <=> SignaturesNaming(a) \cap ParsedBy(p) # {}

\* A returned pass whose first transaction, naming two addresses, came back
\* null: the list holds the one address of the second transaction only
C21_Witness ==
  /\ pc[Main] = "discDone"
  /\ Len(history) = 2
  /\ AnsweredAs(Main, 1, "null")
  /\ AnsweredAs(Main, 2, "ok")
  /\ Len(history[1].accountKeys) = 2
  /\ Len(history[2].accountKeys) = 1
  /\ Len(scanned[Main]) = 1
  /\ scanned[Main][1].address = history[2].accountKeys[1]
  /\ ledger[history[1].accountKeys[1]].exists
  /\ ledger[history[1].accountKeys[2]].exists

\* Position of address a in the input of evaluation p
InputPosition(p, a) == Least(PositionsOf(accounts[p], a))

\* The tier that comes first for what evaluation read of entry e: a failed
\* lookup reads as a missing account
FirstTier(e) ==
  IF e.fetch = "raise" \/ ~e.info.exists \/ e.info.lamports = 0
  THEN ACCOUNT_CLOSED
  ELSE IF e.info.dataLength = 0 THEN ACCOUNT_EMPTY
  ELSE ACCOUNT_INACTIVE

\* ------------------------------------------------------------------------
\* C22: evaluate returns each input account at most once, with one reason,
\* the first tier that matches in the order closed, empty-payload, inactive;
\* the output names only addresses of the input, in the order of the input.
\* ------------------------------------------------------------------------
C22_OneReasonInInputOrder ==
  \A p \in Procs :
    /\ \A a \in Addrs : Cardinality(OutputsFor(p, a)) <= 1
    /\ \A j \in 1..Len(reclaimable[p]) :
         /\ PositionsOf(accounts[p], reclaimable[p][j].address) # {}
         /\ reclaimable[p][j].reason
              \in {ACCOUNT_CLOSED, ACCOUNT_EMPTY, ACCOUNT_INACTIVE}
         /\ \E k \in 1..Len(evalLog[p]) :
              /\ evalLog[p][k].acct.address = reclaimable[p][j].address
              /\ k = InputPosition(p, reclaimable[p][j].address)
              /\ reclaimable[p][j].reason = FirstTier(evalLog[p][k])
    /\ \A j, k \in 1..Len(reclaimable[p]) :
         j < k => InputPosition(p, reclaimable[p][j].address)
                    < InputPosition(p, reclaimable[p][k].address)

\* A finished evaluation of two accounts, both returned in input order: the
\* first exists with no lamports and no payload (closed comes before
\* empty-payload), the second is inactive
C22_Witness ==
  /\ pc[Main] = "evalDone"
  /\ Len(accounts[Main]) = 2
  /\ Len(reclaimable[Main]) = 2
  /\ reclaimable[Main][1].address = accounts[Main][1].address
  /\ reclaimable[Main][2].address = accounts[Main][2].address
  /\ Observed(evalLog[Main][1])
  /\ evalLog[Main][1].info.lamports = 0
  /\ evalLog[Main][1].info.dataLength = 0
  /\ reclaimable[Main][1].reason = ACCOUNT_CLOSED
  /\ reclaimable[Main][2].reason = ACCOUNT_INACTIVE

\* ------------------------------------------------------------------------
\* Specification of repeated evaluation: identifyReclaimableAccounts is
\* called a second time on the list of a call that returned, while nothing
\* else runs
\* ------------------------------------------------------------------------
CallEvaluateAgain(p) ==
  /\ pc[p] = "idle"
  /\ \E q \in Procs \ {p} :
       /\ pc[q] = "evalDone"
       /\ accounts' = [accounts EXCEPT ![p] = accounts[q]]
  /\ idx' = [idx EXCEPT ![p] = 1]
  /\ reclaimable' = [reclaimable EXCEPT ![p] = <<>>]
  /\ pc' = [pc EXCEPT ![p] = "evalFetch"]
  /\ UNCHANGED <<envVars, reclaimerVars, live, reclaimVars, evalLog,
                 discoverVars>>

\* The input of the first call and the ledger under both: accounts as
\* FundedInfos has them, discovered with no balance or with the largest
InitTwice ==
  /\ DiscoveryUnused
  /\ Constructed
  /\ config \in Configs
  /\ \E n \in 1..Len(AddrOrder) :
       /\ ledger \in [Addrs -> {NullInfo} \cup FundedInfos]
       /\ sigs \in [Addrs -> SigStates]
       /\ \A a \in Addrs \ Listed(n) : ledger[a] = NullInfo /\ sigs[a] = NoSig
       /\ \E l \in [1..n -> {0, MaxLamports}] :
            accounts = [p \in Procs |->
                          IF p = Main
                          THEN [k \in 1..n |-> Snapshot(AddrOrder[k], l[k], ledger[AddrOrder[k]])]
                          ELSE <<>>]
  /\ pc = [p \in Procs |-> IF p = Main THEN "evalFetch" ELSE "idle"]
  /\ idx = [p \in Procs |-> 1]
  /\ live = [p \in Procs |-> NullInfo]
  /\ reclaimable = [p \in Procs |-> <<>>]
  /\ results = [p \in Procs |-> <<>>]
  /\ evalLog = [p \in Procs |-> <<>>]
  /\ attemptLog = [p \in Procs |-> <<>>]

NextTwice ==
  \E p \in Procs :
    \/ EvalFetch(p)
    \/ EvalActivity(p)
    \/ EvalReturn(p)
    \/ CallEvaluateAgain(p)

SpecTwice == InitTwice /\ [][NextTwice]_vars

\* Two evaluations that returned, of the same input list
RanTwice(p, q) ==
  /\ p # q
  /\ pc[p] = "evalDone"
  /\ pc[q] = "evalDone"
  /\ accounts[p] = accounts[q]

\* The ledger calls the two runs made of the same account got the same kind
\* of answer: none failed in one run and answered in the other
SameAnswers(p, q) ==
  \A k \in 1..Len(evalLog[p]) : \A j \in 1..Len(evalLog[q]) :
    evalLog[p][k].acct.address = evalLog[q][j].acct.address
    => /\ evalLog[p][k].fetch = evalLog[q][j].fetch
       /\ (evalLog[p][k].activity.asked /\ evalLog[q][j].activity.asked)
            => evalLog[p][k].activity.kind = evalLog[q][j].activity.kind

\* An evaluation step leaves alone everything an evaluation reads
EvaluationReadsUnchanged ==
  /\ ledger' = ledger
  /\ sigs' = sigs
  /\ config' = config
  /\ now' = now
  /\ reclaimerVars' = reclaimerVars

PassedAttempts(p) ==
  {k \in Attempted(p) : attemptLog[p][k].passed}

\* ------------------------------------------------------------------------
\* C24: a reclaim attempt that passes its preconditions submits exactly one
\* transfer, from the account to the treasury address, signed by the sponsor
\* identity, of the full balance read by the precondition check of that
\* attempt; an attempt that does not pass submits none.
\* ------------------------------------------------------------------------
C24_OneFullTransferToTreasury ==
  \A p \in Procs :
    /\ \A k \in Attempted(p) :
         LET a == attemptLog[p][k] IN
           IF a.passed
           THEN /\ a.sent
                /\ Cardinality(TransfersFrom(a.address)) = 1
                /\ \A j \in TransfersFrom(a.address) :
                     /\ transfers[j].to = Treasury
                     /\ transfers[j].signer = FeePayer
                     /\ transfers[j].lamports = a.info.lamports
                     /\ transfers[j].lamports > 0
           ELSE TransfersFrom(a.address) = {}
    /\ p = Main => Len(transfers) = Cardinality(PassedAttempts(p))

\* A passed attempt whose transfer carries the balance read by the attempt,
\* which is neither the estimate of the evaluation nor the least amount
C24_Witness ==
  \E k \in PassedAttempts(Main) : \E j \in TransfersFrom(attemptLog[Main][k].address) :
    /\ transfers[j].lamports = MaxLamports
    /\ transfers[j].lamports # reclaimable[Main][k].estimatedRent
    /\ results[Main][k].success

\* Attempts of p that made their first ledger call and have not returned
InFlight(p) == {k \in 1..Len(attemptLog[p]) : k \notin Attempted(p)}

\* p makes the first ledger call of an attempt in this step
StartsAttempt(p) == Len(attemptLog'[p]) = Len(attemptLog[p]) + 1

\* ------------------------------------------------------------------------
\* C25: within one reclaimAll the attempts are strictly serial: an attempt
\* makes its first ledger call only after the attempt before it produced its
\* result and the pause elapsed; at most one attempt is in flight, attempts
\* follow the input order and so do the audit records.
\* ------------------------------------------------------------------------
C25_AttemptsStrictlySerial ==
  /\ [](\A p \in Procs :
          /\ Cardinality(InFlight(p)) <= 1
          /\ \A k \in 1..Len(attemptLog[p]) :
               attemptLog[p][k].address = reclaimable[p][k].address
          /\ \A k \in Attempted(p) :
               k > 1 => results[p][k].timestamp
                          >= results[p][k - 1].timestamp + PauseMs
          /\ p = Main =>
               /\ Len(auditLog) = Len(results[p])
               /\ \A k \in 1..Len(auditLog) :
                    auditLog[k].accountAddress = reclaimable[p][k].address)
  /\ [][\A p \in Procs :
          StartsAttempt(p) =>
            /\ InFlight(p) = {}
            /\ Len(attemptLog[p]) = Len(results[p])
            /\ results[p] # <<>> =>
                 now >= results[p][Len(results[p])].timestamp + PauseMs]_vars

\* Two attempts returned, both after a transfer, the second one pause later
C25_Witness ==
  /\ Len(results[Main]) = 2
  /\ Len(transfers) = 2
  /\ Len(auditLog) = 2
  /\ auditLog[1].accountAddress # auditLog[2].accountAddress
  /\ results[Main][2].timestamp = results[Main][1].timestamp + PauseMs

\* Scan summaries that invocation p logged
SummariesOf(p) ==
  {k \in 1..Len(cycleLog) :
     cycleLog[k].proc = p /\ cycleLog[k].event = "summary"}

\* Completions of a full cycle that invocation p recorded
CompletionsOf(p) ==
  {k \in 1..Len(cycleLog) :
     cycleLog[k].proc = p /\ cycleLog[k].event = "finished"}

\* p has started evaluation / has started the reclaim batch
EvaluationStarted(p) ==
  pc[p] \in {"evalFetch", "evalActivity", "evalDone", "statsDone",
             "reclaimRead", "reclaimSend", "reclaimPause", "reclaimDone",
             "cycleDone"}
BatchStarted(p) ==
  pc[p] \in {"reclaimRead", "reclaimSend", "reclaimPause", "reclaimDone",
             "cycleDone"}

\* ------------------------------------------------------------------------
\* C26: in a full cycle the stages are ordered.  Evaluation runs on the list
\* discovery returned, after discovery made its last call; the scan summary
\* (accounts scanned, reclaimable count, total estimate) is logged after
\* evaluation returned and before the first reclaim attempt; the batch is the
\* list evaluation returned, attempted in its order; lastScanTime is written
\* only when the last attempt of the batch has returned, and stays 0 while
\* no cycle has completed.
\* ------------------------------------------------------------------------
C26_StagesInOrder ==
  /\ [](\A p \in Procs :
          /\ EvaluationStarted(p) => accounts[p] = scanned[p]
          /\ BatchStarted(p) <=> SummariesOf(p) # {}
          /\ attemptLog[p] # <<>> => BatchStarted(p)
          /\ \A k \in SummariesOf(p) :
               /\ Cardinality(SummariesOf(p)) = 1
               /\ cycleLog[k].payload.totalAccounts = Len(scanned[p])
               /\ cycleLog[k].payload.reclaimableCount = Len(reclaimable[p])
               /\ cycleLog[k].payload.totalReclaimableLamports
                    = SumTo([j \in 1..Len(reclaimable[p]) |->
                               reclaimable[p][j].estimatedRent],
                            Len(reclaimable[p]))
          /\ \A k \in 1..Len(attemptLog[p]) :
               attemptLog[p][k].address = reclaimable[p][k].address
          /\ \A k \in 1..Len(reclaimable[p]) :
               \E j \in 1..Len(evalLog[p]) :
                 evalLog[p][j].acct.address = reclaimable[p][k].address
          /\ pc[p] = "cycleDone" <=> CompletionsOf(p) # {}
          /\ CompletionsOf(p) # {} => Len(results[p]) = Len(reclaimable[p]))
  /\ [](lastScanTime = LastCycleTime)
  /\ [][\A p \in Procs :
          /\ discLog'[p] # discLog[p]
               => evalLog[p] = <<>> /\ ~EvaluationStarted(p)
          /\ evalLog'[p] # evalLog[p]
               => /\ pc[p] \in {"evalFetch", "evalActivity"}
                  /\ ~BatchStarted(p) /\ attemptLog[p] = <<>>
          /\ BatchStarted(p) => reclaimable'[p] = reclaimable[p]
          /\ SummariesOf(p)' # SummariesOf(p)
               => pc[p] = "evalDone" /\ attemptLog[p] = <<>>
          /\ CompletionsOf(p)' # CompletionsOf(p)
               => /\ pc[p] = "reclaimDone"
                  /\ Len(results[p]) = Len(reclaimable[p])
                  /\ Len(attemptLog[p]) = Len(reclaimable[p])
                  /\ lastScanTime' = now]_vars
  /\ [][lastScanTime' # lastScanTime
          => \E p \in Procs : CompletionsOf(p)' # CompletionsOf(p)]_vars

\* A full cycle that completed: two accounts discovered, one evaluated as
\* reclaimable and attempted, the summary says so, the completion is stamped
C26_Witness ==
  /\ pc[Main] = "cycleDone"
  /\ Len(scanned[Main]) = 2
  /\ Len(reclaimable[Main]) = 1
  /\ Len(results[Main]) = 1
  /\ results[Main][1].success
  /\ \E k \in SummariesOf(Main) :
       /\ cycleLog[k].payload.totalAccounts = 2
       /\ cycleLog[k].payload.reclaimableCount = 1
       /\ cycleLog[k].payload.totalReclaimableLamports = MaxLamports
  /\ lastScanTime = NowInit + PauseMs

\* Attempts of p on address a that reached sendAndConfirmTransaction
SentBy(p, a) ==
  {k \in 1..Len(attemptLog[p]) :
     attemptLog[p][k].address = a /\ attemptLog[p][k].sent}

\* Number of attempts of the invocations ps on a that reached the send
RECURSIVE SentOver(_, _)
SentOver(ps, a) ==
  IF ps = {} THEN 0
  ELSE LET p == CHOOSE q \in ps : TRUE
       IN Cardinality(SentBy(p, a)) + SentOver(ps \ {p}, a)

SentCount(a) == SentOver(Procs, a)

\* ------------------------------------------------------------------------
\* C27: the core does not serialize concurrent invocations.  Every attempt
\* that passes its guards submits a transfer of its own, whatever another
\* invocation has submitted for the same account: the transfers submitted
\* for an address are as many as the attempts of all invocations that
\* reached the send.  Two concurrent cycles can so both classify an account
\* as reclaimable and both submit a transfer for it (C27_Witness).
\* ------------------------------------------------------------------------
C27_NoSerialization ==
  /\ \A a \in Addrs : Cardinality(TransfersFrom(a)) = SentCount(a)
  /\ \A p \in Procs : \A k \in Attempted(p) :
       attemptLog[p][k].passed => attemptLog[p][k].sent

\* Double submission: both cycles returned the same account as reclaimable,
\* both read it as it was before any transfer landed and both submitted a
\* transfer for it; one of the two landed
C27_Witness ==
  \E a \in Addrs :
    /\ \A p \in Procs :
         /\ entry[p] = "cycle"
         /\ PositionsOf(reclaimable[p], a) # {}
         /\ \E k \in SentBy(p, a) :
              attemptLog[p][k].passed /\ attemptLog[p][k].info.exists
    /\ Cardinality(TransfersFrom(a)) = 2
    /\ \E p \in Procs : \E k \in SentBy(p, a) : attemptLog[p][k].send = "ok"

\* ------------------------------------------------------------------------
\* C28: a full cycle never submits a transfer whose source is the address of
\* the signing identity or the treasury address.  The code excludes neither:
\* both are discovered from the fee payer's transactions and, being system
\* accounts without data, are returned by rule B and attempted.
\* ------------------------------------------------------------------------
C28_OwnAddressesNeverSource ==
  \A k \in 1..Len(transfers) : transfers[k].from \notin {FeePayer, Treasury}

\* The account of attempt k of p was on the ledger, when the attempt read
\* it, as it was when evaluation read it
UnchangedSinceEvaluation(p, k) ==
  \E j \in 1..Len(evalLog[p]) :
    /\ evalLog[p][j].acct.address = attemptLog[p][k].address
    /\ evalLog[p][j].info = attemptLog[p][k].info

\* ------------------------------------------------------------------------
\* C29: when the ledger state of an account is the same at evaluation and at
\* reclaim, an attempt on an account that evaluate classified as closed does
\* not pass the guards, does not succeed, moves nothing and adds nothing to
\* the lifetime counter.  The code classifies as closed an existing account
\* whose lookup failed, and the attempt on it succeeds.
\* ------------------------------------------------------------------------
C29_ClosedNeverReclaimed ==
  \A p \in Procs : \A k \in Attempted(p) :
    (reclaimable[p][k].reason = ACCOUNT_CLOSED /\ UnchangedSinceEvaluation(p, k))
    => /\ ~attemptLog[p][k].passed
       /\ ~results[p][k].success
       /\ attemptLog[p][k].moved = 0
       /\ results[p][k].reclaimedAmount = 0
       /\ TransfersFrom(attemptLog[p][k].address) = {}

\* Sum of reclaimedAmount over the successful results among the first n of p
RECURSIVE SumReported(_, _)
SumReported(p, n) ==
  IF n = 0 THEN 0
  ELSE (IF results[p][n].success THEN results[p][n].reclaimedAmount ELSE 0)
         + SumReported(p, n - 1)

\* The same over the invocations ps
RECURSIVE SumReportedBy(_)
SumReportedBy(ps) ==
  IF ps = {} THEN 0
  ELSE LET p == CHOOSE q \in ps : TRUE
       IN SumReported(p, Len(results[p])) + SumReportedBy(ps \ {p})

\* ------------------------------------------------------------------------
\* C30: under any interleaving of concurrent reclaimAll invocations of one
\* RentReclaimer, no counter update is lost: lifetimeReclaimed equals the
\* sum of reclaimedAmount over the successful results all invocations have
\* produced so far.
\* ------------------------------------------------------------------------
C30_NoLostCounterUpdate == lifetimeReclaimed = SumReportedBy(Procs)

\* Both invocations succeeded once, on different accounts, and the attempt
\* of the other on the same account had passed its guards before the
\* transfer landed: the counter holds both amounts
C30_Witness ==
  /\ \A p \in Procs : \E k \in Attempted(p) : results[p][k].success
  /\ \E p \in Procs : \E k \in Attempted(p) :
       attemptLog[p][k].passed /\ ~results[p][k].success
  /\ lifetimeReclaimed = 2 * MaxLamports

====
